---- MODULE Spec2Model ----
(***************************************************************************)
(* A model of the extraction-and-sanitization core of PDF-Auto: the pose   *)
(* (installation-sold) scanner of DevisParser, the record validators, and  *)
(* the extraction run of MainWindow._extract_data.                         *)
(*                                                                         *)
(* Text is modelled as TLA+ strings, character by character: TLC evaluates *)
(* Len, SubSeq, Head, Tail and \o on strings, so every regular expression  *)
(* and every str method of the source is an operator over the characters   *)
(* of its argument.                                                        *)
(***************************************************************************)
EXTENDS Naturals, Sequences, FiniteSets, TLC

VARIABLES
    pc,               \* position of the run that the specification explores
    lines,            \* the document's LineSequence (a sequence of strings)
    idx,              \* _find_pose_details: index of the line the loop is at
    saw_prestations,  \* _find_pose_details: saw_prestations
    pose_sold,        \* _find_pose_details: pose_sold
    pose_amount,      \* _find_pose_details: pose_amount
    run_data,         \* _extract_data: data, without its "lines" key
    run_candidate,    \* _extract_data: candidate
    checked,          \* the record given to the last call of validate_and_fix
    validation_warnings, \* the warnings the last call of validate_and_fix returned
    noted,            \* every warning a pass put into parse_warning so far
    calls,            \* the calls of _call_model made by the run
    pose_status,      \* _extract_data: pose_status
    verdict,          \* what validate_bdc_data returned
    fill_error,       \* the message of the error _validate_output_fields raised
    debug_cache,      \* DevisParser._debug_cache: path -> the lines kept for export_debug
    row               \* one row of the devis table: its cells and its item

poseVars == <<idx, saw_prestations, pose_sold, pose_amount>>

runVars == <<run_data, run_candidate, checked, validation_warnings, noted, calls, pose_status>>

sideVars == <<verdict, fill_error, debug_cache, row>>

\* An operator that models a function is applied through Call, the one
\* recursive operator of the module, with the operator's name and the tuple
\* of its arguments.  TLC's coverage statistics unfold every application in
\* place, and unfold an application of a recursive operator once.
RECURSIVE Call(_, _)

vars == <<pc, lines, poseVars, runVars, sideVars>>

-----------------------------------------------------------------------------
(* Characters and str methods                                              *)

Ch(s, i) == SubSeq(s, i, i)

\* The narrow no-break space U+202F, which the module parser does not accept
\* in a string: the model writes it ~, a character no modelled text uses.
NNBSP == "~"

Digits == {"0", "1", "2", "3", "4", "5", "6", "7", "8", "9"}

LowerLetters == "abcdefghijklmnopqrstuvwxyzéèêàç"

UpperLetters == "ABCDEFGHIJKLMNOPQRSTUVWXYZÉÈÊÀÇ"

IsDigit(c) == c \in Digits

\* str.isspace and \s of re
IsSpace(c) == c \in {" ", NNBSP, "\n", "\t"}

LowerSet == { Ch(LowerLetters, i) : i \in 1..Len(LowerLetters) }

UpperSet == { Ch(UpperLetters, i) : i \in 1..Len(UpperLetters) }

IsLetter(c) == c \in LowerSet \/ c \in UpperSet

\* \w of re: a letter, a digit or the underscore
IsWordCh(c) == IsLetter(c) \/ IsDigit(c) \/ c = "_"

\* the letter of the other case, by position in LowerLetters and UpperLetters
UpperOf ==
    [c \in LowerSet |-> Ch(UpperLetters, CHOOSE i \in 1..Len(LowerLetters) : c = Ch(LowerLetters, i))]

LowerOf ==
    [c \in UpperSet |-> Ch(LowerLetters, CHOOSE i \in 1..Len(UpperLetters) : c = Ch(UpperLetters, i))]

UpperCh(c) == IF c \in LowerSet THEN UpperOf[c] ELSE c

LowerCh(c) == IF c \in UpperSet THEN LowerOf[c] ELSE c

\* The operators over the characters of a text split the text in halves, so
\* that their evaluation nests to a depth logarithmic in the length.

\* F(a) \o ... \o F(b)
RECURSIVE ConcatRange(_, _, _)
ConcatRange(F(_), a, b) ==
    IF a > b THEN ""
    ELSE IF a = b THEN F(a)
    ELSE LET mid == (a + b) \div 2
         IN  ConcatRange(F, a, mid) \o ConcatRange(F, mid + 1, b)

\* the least i in a..b with P(i), or b + 1
RECURSIVE FirstIdx(_, _, _)
FirstIdx(P(_), a, b) ==
    IF a > b THEN b + 1
    ELSE IF a = b THEN (IF P(a) THEN a ELSE b + 1)
    ELSE LET mid == (a + b) \div 2
             l   == FirstIdx(P, a, mid)
         IN  IF l <= mid THEN l ELSE FirstIdx(P, mid + 1, b)

\* the greatest i in a..b with P(i), or a - 1 (a >= 1)
RECURSIVE LastIdx(_, _, _)
LastIdx(P(_), a, b) ==
    IF a > b THEN a - 1
    ELSE IF a = b THEN (IF P(a) THEN a ELSE a - 1)
    ELSE LET mid == (a + b) \div 2
             h   == LastIdx(P, mid + 1, b)
         IN  IF h > mid THEN h ELSE LastIdx(P, a, mid)

Upper(s) == ConcatRange(LAMBDA i : UpperCh(Ch(s, i)), 1, Len(s))

Lower(s) == ConcatRange(LAMBDA i : LowerCh(Ch(s, i)), 1, Len(s))

\* sub in s
Contains(s, sub) ==
    \E i \in 1..(Len(s) + 1) :
        i + Len(sub) - 1 <= Len(s) /\ SubSeq(s, i, i + Len(sub) - 1) = sub

\* s.replace(a, b) for a single character a
Replace(s, a, b) ==
    ConcatRange(LAMBDA i : IF Ch(s, i) = a THEN b ELSE Ch(s, i), 1, Len(s))

LStrip(s) == SubSeq(s, FirstIdx(LAMBDA i : ~IsSpace(Ch(s, i)), 1, Len(s)), Len(s))

RStrip(s) == SubSeq(s, 1, LastIdx(LAMBDA i : ~IsSpace(Ch(s, i)), 1, Len(s)))

\* s.strip()
Strip(s) == Call("RStrip", <<Call("LStrip", <<s>>)>>)

\* re.sub(r"\s+", " ", s)
CollapseSpaces(s) ==
    ConcatRange(LAMBDA i : IF ~IsSpace(Ch(s, i)) THEN Ch(s, i)
                           ELSE IF i > 1 /\ IsSpace(Ch(s, i - 1)) THEN "" ELSE " ",
                1, Len(s))

\* a \b of re at the gap before position i of s (1 <= i <= Len(s) + 1)
WordBoundary(s, i) ==
    LET before == i > 1 /\ IsWordCh(Ch(s, i - 1))
        after  == i <= Len(s) /\ IsWordCh(Ch(s, i))
    IN  before # after

-----------------------------------------------------------------------------
(* Regular expressions.  A pattern is a sequence of elements; an element   *)
(* is a word boundary [k |-> "b"], the end of the text [k |-> "e"] or a     *)
(* quantified character class                                              *)
(* [k |-> "c", names, chars, lo, hi]: the characters of the named classes  *)
(* and of the string chars, between lo and hi times, greedily.  A pattern  *)
(* used with re.IGNORECASE writes its chars in lower case.                 *)

Inf == 999

AsciiLower == "abcdefghijklmnopqrstuvwxyz"

AsciiUpper == "ABCDEFGHIJKLMNOPQRSTUVWXYZ"

InStr(c, str) == \E i \in 1..Len(str) : c = Ch(str, i)

\* c belongs to the class of element e; ic is re.IGNORECASE
InClass(e, c, ic) ==
    \/ "any" \in e.names /\ c # "\n"
    \/ "d" \in e.names /\ IsDigit(c)
    \/ "s" \in e.names /\ IsSpace(c)
    \/ "w" \in e.names /\ IsWordCh(c)
    \/ "AZ" \in e.names /\ (InStr(c, AsciiUpper) \/ (ic /\ InStr(c, AsciiLower)))
    \/ "az" \in e.names /\ (InStr(c, AsciiLower) \/ (ic /\ InStr(c, AsciiUpper)))
    \/ "acc" \in e.names /\ IsLetter(c) /\ ~InStr(c, AsciiLower) /\ ~InStr(c, AsciiUpper)
    \/ InStr(IF ic THEN LowerCh(c) ELSE c, e.chars)

B == [k |-> "b"]

End == [k |-> "e"]

Cls(names, chars, lo, hi) == [k |-> "c", names |-> names, chars |-> chars, lo |-> lo, hi |-> hi]

\* a literal string: one element per character
Lit(str) == [i \in 1..Len(str) |-> Cls({}, Ch(str, i), 1, 1)]

Dig(lo, hi) == Cls({"d"}, "", lo, hi)

Spc(lo, hi) == Cls({"s"}, "", lo, hi)

AnyCh(lo, hi) == Cls({"any"}, "", lo, hi)

\* the length of the longest run of at most hi characters of the class of e
\* that starts at position i of s
RECURSIVE ClassRun(_, _, _, _, _)
ClassRun(e, s, i, ic, hi) ==
    LET last == IF i + hi - 1 < Len(s) THEN i + hi - 1 ELSE Len(s)
    IN  FirstIdx(LAMBDA j : ~InClass(e, Ch(s, j), ic), i, last) - i

\* the number of the leading elements of p that take exactly one character
RECURSIVE FixedPrefix(_)
FixedPrefix(p) ==
    FirstIdx(LAMBDA j : ~(p[j].k = "c" /\ p[j].lo = 1 /\ p[j].hi = 1), 1, Len(p)) - 1

\* The backtracking match of pattern p at position i of s: the sequence of
\* the positions at which the elements of p begin, followed by the position
\* after the match; <<>> when p does not match at i.  Each element takes the
\* longest run for which the rest of the pattern still matches: TryRuns
\* tries the runs of its first element from hi characters down to lo.  The
\* leading elements that take exactly one character are matched together.
RECURSIVE MatchAt(_, _, _, _)
RECURSIVE TryRuns(_, _, _, _, _, _)
MatchAt(p, s, i, ic) ==
    IF p = <<>> THEN <<i>>
    ELSE LET e == Head(p)
             n == FixedPrefix(p)
         IN
         IF n > 0
         THEN IF /\ i + n - 1 <= Len(s)
                 /\ \A j \in 1..n : InClass(p[j], Ch(s, i + j - 1), ic)
              THEN LET r == MatchAt(SubSeq(p, n + 1, Len(p)), s, i + n, ic)
                   IN  IF r # <<>> THEN [j \in 1..n |-> i + j - 1] \o r ELSE <<>>
              ELSE <<>>
         ELSE IF e.k = "b"
         THEN IF WordBoundary(s, i) THEN TryRuns(p, s, i, ic, 0, 0) ELSE <<>>
         ELSE IF e.k = "e"
         THEN IF i = Len(s) + 1 THEN TryRuns(p, s, i, ic, 0, 0) ELSE <<>>
         ELSE TryRuns(p, s, i, ic, e.lo, ClassRun(e, s, i, ic, e.hi))

TryRuns(p, s, i, ic, lo, hi) ==
    IF hi < lo THEN <<>>
    ELSE IF lo = hi
    THEN LET r == MatchAt(Tail(p), s, i + lo, ic)
         IN  IF r # <<>> THEN <<i>> \o r ELSE <<>>
    ELSE LET mid   == (lo + hi + 1) \div 2
             upper == TryRuns(p, s, i, ic, mid, hi)
         IN  IF upper # <<>> THEN upper ELSE TryRuns(p, s, i, ic, lo, mid - 1)

\* re.search over the alternatives ps (a sequence of patterns)
Search(ps, s, ic) ==
    \E i \in 1..(Len(s) + 1) : \E a \in 1..Len(ps) : MatchAt(ps[a], s, i, ic) # <<>>

\* the match at position i of the first alternative, from a on, that matches
RECURSIVE FirstAlternative(_, _, _, _, _)
FirstAlternative(ps, s, ic, i, a) ==
    IF a > Len(ps) THEN <<>>
    ELSE LET r == MatchAt(ps[a], s, i, ic)
         IN  IF r # <<>> THEN r ELSE FirstAlternative(ps, s, ic, i, a + 1)

\* the match at the leftmost position of a..b where an alternative matches
RECURSIVE FirstMatchFrom(_, _, _, _, _)
FirstMatchFrom(ps, s, ic, a, b) ==
    IF a > b THEN <<>>
    ELSE IF a = b THEN FirstAlternative(ps, s, ic, a, 1)
    ELSE LET mid == (a + b) \div 2
             l   == FirstMatchFrom(ps, s, ic, a, mid)
         IN  IF l # <<>> THEN l ELSE FirstMatchFrom(ps, s, ic, mid + 1, b)

\* the match re.search returns: the leftmost position, there the first
\* alternative that matches; <<>> when there is none
FirstMatch(ps, s, ic) ==
    FirstMatchFrom(ps, s, ic, 1, Len(s) + 1)

\* group 0 of a match m
Group0(m, s) == SubSeq(s, m[1], m[Len(m)] - 1)

\* the text matched by elements a..b of the pattern of match m
GroupOf(m, s, a, b) == SubSeq(s, m[a], m[b + 1] - 1)

\* \b(alt1|alt2|...)\b
Bounded(alts) == [a \in 1..Len(alts) |-> <<B>> \o alts[a] \o <<B>>]

-----------------------------------------------------------------------------
(* Amounts: AMOUNT_RE and DevisParser._normalize_amount                    *)

\* The end of the match of [0-9][0-9\s\u202f]*[\.,][0-9]{2} that starts at
\* position i of s, or 0 when the expression does not match there.  The
\* character classes of the starred part and of the separator are disjoint,
\* so the starred part is the whole run of digits and spaces after i.
RunEnd(s, j) ==
    FirstIdx(LAMBDA k : ~(IsDigit(Ch(s, k)) \/ IsSpace(Ch(s, k))), j + 1, Len(s)) - 1

AmountEndAt(s, i) ==
    IF i <= Len(s) /\ IsDigit(Ch(s, i))
    THEN LET r == Call("RunEnd", <<s, i>>)
         IN  IF r + 3 <= Len(s) /\ Ch(s, r + 1) \in {".", ","}
                /\ IsDigit(Ch(s, r + 2)) /\ IsDigit(Ch(s, r + 3))
             THEN r + 3
             ELSE 0
    ELSE 0

\* AMOUNT_RE.findall(s[i:]): the matches from left to right, not overlapping
AmountFindAllFrom(s, i) ==
    LET start == FirstIdx(LAMBDA k : Call("AmountEndAt", <<s, k>>) # 0, i, Len(s))
    IN  IF start > Len(s) THEN <<>>
        ELSE <<SubSeq(s, start, Call("AmountEndAt", <<s, start>>))>>
             \o Call("AmountFindAllFrom", <<s, Call("AmountEndAt", <<s, start>>) + 1>>)

AmountFindAll(s) == Call("AmountFindAllFrom", <<s, 1>>)

\* The end of the \s*€ that follows position e, or 0
SpaceRunEnd(s, j) ==
    FirstIdx(LAMBDA k : ~IsSpace(Ch(s, k)), j + 1, Len(s)) - 1

EuroEndAfter(s, e) ==
    LET r == Call("SpaceRunEnd", <<s, e>>)
    IN  IF r + 1 <= Len(s) /\ Ch(s, r + 1) = "€" THEN r + 1 ELSE 0

\* re.findall(r"([0-9][0-9\s\u202f]*[\.,][0-9]{2})\s*€", s[i:]) (group 1)
EuroEndAt(s, i) ==
    IF Call("AmountEndAt", <<s, i>>) = 0 THEN 0 ELSE Call("EuroEndAfter", <<s, Call("AmountEndAt", <<s, i>>)>>)

EuroFindAllFrom(s, i) ==
    LET start == FirstIdx(LAMBDA k : Call("EuroEndAt", <<s, k>>) # 0, i, Len(s))
    IN  IF start > Len(s) THEN <<>>
        ELSE <<SubSeq(s, start, Call("AmountEndAt", <<s, start>>))>>
             \o Call("EuroFindAllFrom", <<s, Call("EuroEndAt", <<s, start>>) + 1>>)

EuroFindAll(s) == Call("EuroFindAllFrom", <<s, 1>>)

RemoveCh(s, a) == Call("Replace", <<s, a, "">>)

\* DevisParser._normalize_amount
NormalizeAmount(value) ==
    LET v1 == Call("Strip", <<Call("CollapseSpaces", <<Call("Replace", <<value, NNBSP, " ">>)>>)>>)
        v2 == IF Call("Contains", <<v1, ",">>) /\ Call("Contains", <<v1, ".">>) THEN Call("RemoveCh", <<v1, ".">>) ELSE v1
    IN  IF Call("Contains", <<v2, ".">>) THEN Call("Replace", <<v2, ".", ",">>) ELSE v2

-----------------------------------------------------------------------------
(* The regular expressions of devis_parser.py                              *)

EAcute == Cls({}, "eé", 1, 1)

SRX_RE == << Call("Lit", <<"SRX">>) \o <<Dig(4, 4), Cls({"AZ"}, "", 3, 3), Dig(6, 6)>> >>

EMAIL_RE ==
    << <<Cls({"AZ", "d"}, "._%+-", 1, Inf), Cls({}, "@", 1, 1),
         Cls({"AZ", "d"}, ".-", 1, Inf), Cls({}, ".", 1, 1), Cls({"AZ"}, "", 2, Inf)>> >>

PHONE_RE ==
    LET pair == <<Cls({"s"}, ".-", 0, 1), Dig(2, 2)>>
        rest == <<Spc(0, 1), Dig(1, 1)>> \o pair \o pair \o pair \o pair \o <<B>>
    IN  << <<B>> \o Call("Lit", <<"+33">>) \o rest, <<B>> \o Call("Lit", <<"0">>) \o rest >>

CP_VILLE_RE == << <<B, Dig(5, 5), Spc(1, Inf), AnyCh(1, Inf)>> >>

NOISE_HEADER_RE ==
    Call("Bounded", <<<< Call("Lit", <<"r">>) \o <<EAcute>> \o Call("Lit", <<"alis">>) \o <<EAcute, Spc(1, Inf)>> \o Call("Lit", <<"par">>),
               Call("Lit", <<"date">>) \o <<Spc(1, Inf)>> \o Call("Lit", <<"du">>) \o <<Spc(1, Inf)>> \o Call("Lit", <<"devis">>),
               Call("Lit", <<"r">>) \o <<EAcute>> \o Call("Lit", <<"f">>) \o <<Spc(1, Inf)>> \o Call("Lit", <<"affaire">>),
               Call("Lit", <<"devis">>), Call("Lit", <<"facture">>), Call("Lit", <<"bon de commande">>) >>>>)

STREET_HINT_RE ==
    Call("Bounded", <<<< Call("Lit", <<"rue">>), Call("Lit", <<"allee">>), Call("Lit", <<"all">>) \o <<EAcute>> \o Call("Lit", <<"e">>), Call("Lit", <<"avenue">>),
               Call("Lit", <<"av">>) \o <<Cls({}, ".", 0, 1)>>, Call("Lit", <<"bd">>), Call("Lit", <<"boulevard">>),
               Call("Lit", <<"chemin">>), Call("Lit", <<"route">>), Call("Lit", <<"impasse">>), Call("Lit", <<"zac">>), Call("Lit", <<"za">>) >>>>)

LEGAL_NOISE_RE ==
    Call("Bounded", <<<< Call("Lit", <<"sas">>), Call("Lit", <<"sarl">>), Call("Lit", <<"rcs">>), Call("Lit", <<"r.c.s">>), Call("Lit", <<"naf">>), Call("Lit", <<"siret">>),
               Call("Lit", <<"capital">>), Call("Lit", <<"eur">>), Call("Lit", <<"au capital">>) >>>>)
    \o << Call("Lit", <<"b">>) \o <<Spc(0, 1), Dig(1, Inf)>> >>

TEL_MARKER_RE == Call("Bounded", <<<< Call("Lit", <<"t">>) \o <<EAcute>> \o Call("Lit", <<"l">>), Call("Lit", <<"tel">>), Call("Lit", <<"fax">>) >>>>)

CLIENT_STOP_RE ==
    Call("Bounded", <<<< Call("Lit", <<"contact commercial">>), Call("Lit", <<"t">>) \o <<EAcute>> \o Call("Lit", <<"l">>), Call("Lit", <<"tel">>),
               Call("Lit", <<"fax">>), Call("Lit", <<"validit">>) \o <<EAcute>>,
               Call("Lit", <<"d">>) \o <<EAcute>> \o Call("Lit", <<"signation">>), Call("Lit", <<"désignation">>),
               Call("Lit", <<"conditions">>) >>>>)

-----------------------------------------------------------------------------
(* DevisParser: the counterparty block and the sales-contact block         *)

StartsWith(s, prefix) == Len(s) >= Len(prefix) /\ SubSeq(s, 1, Len(prefix)) = prefix

\* the number of characters of s that belong to the class of element e
CountClass(s, e) == Cardinality({ i \in 1..Len(s) : InClass(e, Ch(s, i), FALSE) })

\* DevisParser._clean_line
KeepLineChars(s) ==
    ConcatRange(LAMBDA i : IF IsWordCh(Ch(s, i)) \/ InStr(Ch(s, i), "&'()/-., ")
                           THEN Ch(s, i) ELSE " ",
                1, Len(s))

CleanLine(value) == Call("Strip", <<Call("CollapseSpaces", <<Call("KeepLineChars", <<value>>)>>)>>)

\* DevisParser._is_probable_company_name
IsProbableCompanyName(value) ==
    /\ value # ""
    /\ LET cleaned == Call("CleanLine", <<value>>)
           lowered == Call("Lower", <<cleaned>>)
           allowed == Call("CountClass", <<cleaned, Cls({"AZ", "az", "acc"}, "&-/ ", 1, 1)>>)
       IN  /\ ~Call("Contains", <<lowered, "vaugarny">>)
           /\ ~Call("Search", <<CP_VILLE_RE, cleaned, FALSE>>)
           /\ ~Call("Contains", <<cleaned, ":">>)
           /\ ~Call("Search", <<NOISE_HEADER_RE, lowered, TRUE>>)
           /\ 3 <= Len(cleaned) /\ Len(cleaned) <= 60
           /\ allowed > 0
           /\ 10 * allowed >= 7 * Len(cleaned)

\* DevisParser._looks_like_address_line
LooksLikeAddressLine(value) ==
    \/ Call("Search", <<STREET_HINT_RE, value, TRUE>>)
    \/ MatchAt(<<Dig(1, Inf), Spc(1, Inf), Cls({"w"}, "", 1, Inf)>>, value, 1, FALSE) # <<>>

\* DevisParser._find_line_index, 1-based; 0 stands for None
FindLineIndex(ls, needle) ==
    LET hits == { i \in 1..Len(ls) : Call("Contains", <<Call("Lower", <<ls[i]>>), Call("Lower", <<needle>>)>>) }
    IN  IF hits = {} THEN 0 ELSE CHOOSE i \in hits : \A j \in hits : i <= j

\* the loop of DevisParser._find_client_name_above, from line prev down to stop
NameAboveFrom(ls, prev, stop, fallback) ==
    IF prev < stop THEN fallback
    ELSE LET candidate == Call("CleanLine", <<ls[prev]>>)
             lowered   == Call("Lower", <<candidate>>)
         IN  IF \/ candidate = ""
                \/ Call("StartsWith", <<Call("Upper", <<candidate>>), "DEVIS">>)
                \/ Call("StartsWith", <<lowered, "date du devis">>)
                \/ Call("StartsWith", <<lowered, "réf affaire">>)
                \/ Call("Search", <<NOISE_HEADER_RE, lowered, TRUE>>)
                \/ Call("Search", <<CP_VILLE_RE, candidate, FALSE>>)
                \/ Call("Search", <<LEGAL_NOISE_RE, candidate, TRUE>>)
             THEN Call("NameAboveFrom", <<ls, prev - 1, stop, fallback>>)
             ELSE IF Call("LooksLikeAddressLine", <<candidate>>)
             THEN Call("NameAboveFrom", <<ls, prev - 1, stop,
                                IF fallback = "" /\ Call("IsProbableCompanyName", <<candidate>>)
                                THEN candidate ELSE fallback>>)
             ELSE IF Call("IsProbableCompanyName", <<candidate>>) THEN candidate
             ELSE Call("NameAboveFrom", <<ls, prev - 1, stop, fallback>>)

\* DevisParser._find_client_name_above; code is the 1-based anchor index
FindClientNameAbove(ls, code) ==
    Call("NameAboveFrom", <<ls, code - 1, IF code > 15 THEN code - 15 ELSE 1, "">>)

\* DevisParser._collect_client_address_lines, from line i on
CollectClientAddressLines(ls, i) ==
    IF i > Len(ls) THEN <<>>
    ELSE LET line    == Call("CleanLine", <<ls[i]>>)
             lowered == Call("Lower", <<line>>)
         IN  IF line = "" THEN Call("CollectClientAddressLines", <<ls, i + 1>>)
             ELSE IF Call("Search", <<CLIENT_STOP_RE, lowered, TRUE>>) THEN <<>>
             ELSE IF Call("Search", <<LEGAL_NOISE_RE, line, TRUE>>) \/ Call("Contains", <<lowered, "code client">>)
             THEN Call("CollectClientAddressLines", <<ls, i + 1>>)
             ELSE <<line>> \o Call("CollectClientAddressLines", <<ls, i + 1>>)

\* sep.join(seq)
Join(seq, sep) ==
    IF seq = <<>> THEN ""
    ELSE IF Len(seq) = 1 THEN seq[1]
    ELSE seq[1] \o sep \o Call("Join", <<Tail(seq), sep>>)

\* the loop of DevisParser._extract_contact: [contact, filtered]
ExtractContactFrom(ls, i, contact, filtered) ==
    IF i > Len(ls) THEN [contact |-> contact, filtered |-> filtered]
    ELSE LET m == Call("FirstMatch", <<<< Call("Lit", <<"contact">>) \o <<Spc(0, Inf), Cls({}, ":", 0, 1),
                                                     Spc(0, Inf), AnyCh(1, Inf)>> >>, ls[i], TRUE>>)
         IN  IF m # <<>> /\ contact = ""
             THEN Call("ExtractContactFrom", <<ls, i + 1, Call("Strip", <<Call("GroupOf", <<m, ls[i], 11, 11>>)>>), filtered>>)
             ELSE Call("ExtractContactFrom", <<ls, i + 1, contact, Append(filtered, ls[i])>>)

\* DevisParser._is_majority_upper
IsMajorityUpper(value) ==
    LET letters == Call("CountClass", <<value, Cls({"AZ", "az", "acc"}, "", 1, 1)>>)
        upper   == Call("CountClass", <<value, Cls({}, UpperLetters, 1, 1)>>)
    IN  letters > 0 /\ 10 * upper >= 6 * letters

\* the score of DevisParser._choose_cp_ville for a candidate, shifted by 3
CpVilleScore(prev_line, ville) ==
    LET street == (Call("CountClass", <<prev_line, Dig(1, 1)>>) > 0 /\ Call("Search", <<STREET_HINT_RE, prev_line, TRUE>>))
    IN  (3 + (IF street THEN 3 ELSE 0) + (IF Call("IsMajorityUpper", <<ville>>) THEN 1 ELSE 0))
        - (IF Call("Search", <<LEGAL_NOISE_RE, prev_line, TRUE>>) THEN 3 ELSE 0)

\* the city of a line that CP_VILLE_RE matches
CpVilleCity(line) == Call("Strip", <<Call("GroupOf", <<Call("FirstMatch", <<CP_VILLE_RE, line, FALSE>>), line, 4, 4>>)>>)

\* the postal code of a line that CP_VILLE_RE matches
CpVilleCode(line) == Call("GroupOf", <<Call("FirstMatch", <<CP_VILLE_RE, line, FALSE>>), line, 2, 2>>)

\* the score of candidate line i of address_lines
CpVilleScoreAt(address_lines, i) ==
    Call("CpVilleScore", <<IF i > 1 THEN Call("Strip", <<address_lines[i - 1]>>) ELSE "", Call("CpVilleCity", <<address_lines[i]>>)>>)

\* " ".join(seq[1:])
JoinRest(seq) == IF Len(seq) > 1 THEN Call("Join", <<Tail(seq), " ">>) ELSE ""

\* DevisParser._choose_cp_ville: the first candidate with the highest score
ChooseCpVille(address_lines, cands) ==
    CHOOSE i \in cands :
        \A j \in cands :
            \/ Call("CpVilleScoreAt", <<address_lines, j>>) < Call("CpVilleScoreAt", <<address_lines, i>>)
            \/ Call("CpVilleScoreAt", <<address_lines, j>>) = Call("CpVilleScoreAt", <<address_lines, i>>) /\ i <= j

\* the address lines without line best
WithoutLine(address_lines, best) ==
    SubSeq(address_lines, 1, best - 1) \o SubSeq(address_lines, best + 1, Len(address_lines))

\* DevisParser._split_address_lines: [adresse1, adresse2, cp, ville]
SplitAddressLines(address_lines) ==
    LET cands == { i \in 1..Len(address_lines) : Call("Search", <<CP_VILLE_RE, address_lines[i], FALSE>>) }
    IN  IF cands = {}
        THEN [adresse1 |-> IF address_lines # <<>> THEN address_lines[1] ELSE "",
              adresse2 |-> Call("JoinRest", <<address_lines>>), cp |-> "", ville |-> ""]
        ELSE LET best == Call("ChooseCpVille", <<address_lines, cands>>)
                 remaining == Call("WithoutLine", <<address_lines, best>>)
             IN  [adresse1 |-> IF remaining # <<>> THEN remaining[1] ELSE "",
                  adresse2 |-> Call("JoinRest", <<remaining>>),
                  cp |-> Call("CpVilleCode", <<address_lines[best]>>),
                  ville |-> Call("CpVilleCity", <<address_lines[best]>>)]

\* DevisParser._find_phone and _find_email: the first line with a match of re
FindFirstMatch(ls, re, ic) ==
    IF ls = <<>> THEN ""
    ELSE LET m == Call("FirstMatch", <<re, Head(ls), ic>>)
         IN  IF m # <<>> THEN Call("Strip", <<Call("Group0", <<m, Head(ls)>>)>>) ELSE Call("FindFirstMatch", <<Tail(ls), re, ic>>)

FindPhone(ls) == Call("FindFirstMatch", <<ls, PHONE_RE, FALSE>>)

FindEmail(ls) == Call("FindFirstMatch", <<ls, EMAIL_RE, TRUE>>)

\* lines[a:b] of Python with 1-based a and inclusive b
Slice(ls, a, b) == SubSeq(ls, a, IF b < Len(ls) THEN b ELSE Len(ls))

\* DevisParser._find_client_details_from_lines; code_index 0 stands for None
\* _find_client_details_from_lines without the anchor: the first line is the
\* name and the lines after it are the address
FindClientDetailsAnchorless(ls) ==
    IF ls = <<>>
    THEN [nom |-> "", adresse1 |-> "", adresse2 |-> "", cp |-> "", ville |-> "",
          tel |-> "", email |-> "", contact |-> "", code_index |-> 0]
    ELSE LET a == Call("SplitAddressLines", <<Call("CollectClientAddressLines", <<ls, 2>>)>>)
         IN  [nom |-> Call("CleanLine", <<ls[1]>>),
              adresse1 |-> a.adresse1, adresse2 |-> a.adresse2, cp |-> a.cp, ville |-> a.ville,
              tel |-> Call("FindPhone", <<ls>>), email |-> Call("FindEmail", <<ls>>), contact |-> "", code_index |-> 1]

FindClientDetails(ls) ==
    LET code == Call("FindLineIndex", <<ls, "code client">>) IN
    IF code = 0
    THEN [nom |-> "", adresse1 |-> "", adresse2 |-> "", cp |-> "", ville |-> "",
          tel |-> "", email |-> "", contact |-> "", code_index |-> 0]
    ELSE LET c == Call("ExtractContactFrom", <<Call("CollectClientAddressLines", <<ls, code + 1>>), 1, "", <<>>>>)
             a == Call("SplitAddressLines", <<c.filtered>>)
         IN  [nom |-> Call("FindClientNameAbove", <<ls, code>>),
              adresse1 |-> a.adresse1, adresse2 |-> a.adresse2, cp |-> a.cp, ville |-> a.ville,
              tel |-> Call("FindPhone", <<Call("Slice", <<ls, code, code + 5>>)>>),
              email |-> Call("FindEmail", <<Call("Slice", <<ls, code, code + 5>>)>>),
              contact |-> c.contact, code_index |-> code]

\* the number of the words of s (s.split()) that hold a letter
LetterWords(s) ==
    Cardinality({ i \in 1..Len(s) :
        /\ ~IsSpace(Ch(s, i))
        /\ i = 1 \/ IsSpace(Ch(s, i - 1))
        /\ \E j \in i..(FirstIdx(LAMBDA k : IsSpace(Ch(s, k)), i, Len(s)) - 1) :
               IsLetter(Ch(s, j)) })

\* DevisParser._is_valid_commercial_name_candidate
IsValidCommercialNameCandidate(candidate) ==
    /\ candidate # ""
    /\ LET cleaned == Call("CleanLine", <<candidate>>)
           lowered == Call("Lower", <<cleaned>>)
       IN  /\ ~Call("Search", <<CP_VILLE_RE, cleaned, FALSE>>)
           /\ ~Call("Contains", <<cleaned, "@">>)
           /\ ~Call("Search", <<TEL_MARKER_RE, cleaned, TRUE>>)
           /\ ~Call("Search", <<NOISE_HEADER_RE, lowered, TRUE>>)
           /\ ~Call("Contains", <<lowered, "contact commercial">>)
           /\ Call("LetterWords", <<cleaned>>) >= 2

\* the search of _find_commercial_details_from_lines in the lines after the anchor
CommercialNameBelow(ls, i) ==
    IF i > Len(ls) THEN ""
    ELSE LET candidate == Call("CleanLine", <<ls[i]>>)
         IN  IF candidate # "" /\ ~Call("Search", <<CP_VILLE_RE, candidate, FALSE>>)
                /\ Call("IsValidCommercialNameCandidate", <<candidate>>)
             THEN candidate
             ELSE Call("CommercialNameBelow", <<ls, i + 1>>)

\* DevisParser._find_commercial_details_from_lines; contact_index 0 is None
FindCommercialDetails(ls) ==
    LET idx0 == Call("FindLineIndex", <<ls, "contact commercial">>) IN
    IF idx0 = 0 THEN [nom |-> "", tel |-> "", email |-> "", contact_index |-> 0]
    ELSE LET m == Call("FirstMatch", <<<< Call("Lit", <<"contact commercial">>) \o <<Spc(0, Inf), Cls({}, ":", 1, 1),
                                                            Spc(0, Inf), AnyCh(1, Inf)>> >>,
                             ls[idx0], TRUE>>)
             inline == IF m = <<>> THEN "" ELSE Call("CleanLine", <<Call("GroupOf", <<m, ls[idx0], 22, 22>>)>>)
             name1  == IF Call("IsValidCommercialNameCandidate", <<inline>>) THEN inline
                       ELSE Call("CommercialNameBelow", <<ls, idx0 + 1>>)
             search_lines == Call("Slice", <<ls, IF idx0 > 3 THEN idx0 - 3 ELSE 1, idx0 + 10>>)
         IN  [nom |-> IF Call("Contains", <<Call("Lower", <<name1>>), "contact commercial">>) THEN "" ELSE name1,
              tel |-> Call("FindPhone", <<search_lines>>),
              email |-> Call("FindEmail", <<search_lines>>),
              contact_index |-> idx0]

\* DevisParser._is_invalid_client_name
IsInvalidClientName(candidate) ==
    \/ candidate = ""
    \/ LET cleaned == Call("CleanLine", <<candidate>>)
           lowered == Call("Lower", <<cleaned>>)
       IN  \/ Call("Contains", <<lowered, "réalisé par">>)
           \/ Call("Search", <<NOISE_HEADER_RE, lowered, TRUE>>)
           \/ Call("Contains", <<cleaned, ":">>)
           \/ ~Call("IsProbableCompanyName", <<cleaned>>)

\* DevisParser._is_invalid_commercial_name
IsInvalidCommercialName(candidate) ==
    \/ candidate = ""
    \/ Call("Search", <<CP_VILLE_RE, Call("CleanLine", <<candidate>>), FALSE>>)
    \/ ~Call("IsValidCommercialNameCandidate", <<Call("CleanLine", <<candidate>>)>>)

-----------------------------------------------------------------------------
(* The pose scanner: DevisParser._find_pose_details                        *)

\* the loop over reversed(matches) of _extract_pose_amount
LastNotPlaceholder(matches, k) ==
    IF k = 0 THEN ""
    ELSE LET normalized == Call("NormalizeAmount", <<matches[k]>>)
         IN  IF normalized \notin {"1,00", "1.00"} THEN normalized
             ELSE Call("LastNotPlaceholder", <<matches, k - 1>>)

\* DevisParser._extract_pose_amount
ExtractPoseAmount(line) ==
    LET euro_matches == Call("EuroFindAll", <<line>>)
        matches      == Call("AmountFindAll", <<line>>)
    IN  IF euro_matches # <<>> THEN Call("NormalizeAmount", <<euro_matches[Len(euro_matches)]>>)
        ELSE IF matches = <<>> THEN ""
        ELSE Call("LastNotPlaceholder", <<matches, Len(matches)>>)

\* re.search(r"\bpose\b", line, re.IGNORECASE)
HasPoseWord(line) ==
    \E i \in 1..Len(line) :
        /\ i + 3 <= Len(line)
        /\ Call("Lower", <<SubSeq(line, i, i + 3)>>) = "pose"
        /\ WordBoundary(line, i)
        /\ WordBoundary(line, i + 4)

\* "PRESTATIONS" in line.upper()
IsServicesMarker(line) == Call("Contains", <<Call("Upper", <<line>>), "PRESTATIONS">>)

\* RuleBasedParser._detect_pose, from line i on with saw_prestations = saw
DetectPoseFrom(ls, i, saw) ==
    IF i > Len(ls) THEN FALSE
    ELSE IF Call("Contains", <<Call("Upper", <<ls[i]>>), "PRESTATIONS">>) THEN Call("DetectPoseFrom", <<ls, i + 1, TRUE>>)
    ELSE IF saw /\ Call("Contains", <<Call("Lower", <<ls[i]>>), "pose">>) THEN TRUE
    ELSE Call("DetectPoseFrom", <<ls, i + 1, saw>>)

DetectPose(ls) == Call("DetectPoseFrom", <<ls, 1, FALSE>>)

-----------------------------------------------------------------------------
(* DevisParser: reference, amounts by label, warnings, the parsed record   *)

DigitStr == "0123456789"

\* str(n) of a natural number
NatToStr(n) ==
    IF n < 10 THEN Ch(DigitStr, n + 1) ELSE Call("NatToStr", <<n \div 10>>) \o Ch(DigitStr, (n % 10) + 1)

\* int(s) of a string of digits; 0 for the empty string
StrToNat(s) ==
    IF s = "" THEN 0
    ELSE 10 * Call("StrToNat", <<SubSeq(s, 1, Len(s) - 1)>>)
         + (CHOOSE d \in 0..9 : Ch(DigitStr, d + 1) = Ch(s, Len(s)))

\* the part of s after its first ":" (s.split(":", 1)[-1]): all of s without one
AfterColon(s) ==
    IF ~Call("Contains", <<s, ":">>) THEN s
    ELSE SubSeq(s, FirstIdx(LAMBDA i : Ch(s, i) = ":", 1, Len(s)) + 1, Len(s))

\* the first line from i on that is not blank, stripped
NextNonBlank(ls, i) ==
    IF i > Len(ls) THEN ""
    ELSE IF Call("Strip", <<ls[i]>>) # "" THEN Call("Strip", <<ls[i]>>) ELSE Call("NextNonBlank", <<ls, i + 1>>)

\* DevisParser._find_ref_affaire
FindRefAffaire(ls) ==
    LET hits == { i \in 1..Len(ls) : Call("StartsWith", <<Call("Lower", <<Call("Strip", <<ls[i]>>)>>), "réf affaire">>) } IN
    IF hits = {} THEN ""
    ELSE LET i == CHOOSE h \in hits : \A j \in hits : h <= j
             inline == IF Call("Contains", <<ls[i], ":">>) THEN Call("Strip", <<Call("AfterColon", <<ls[i]>>)>>) ELSE ""
             value  == IF inline # "" THEN inline ELSE Call("NextNonBlank", <<ls, i + 1>>)
         IN  IF Call("StartsWith", <<Call("Lower", <<value>>), "réf affaire">>) THEN Call("Strip", <<Call("AfterColon", <<value>>)>>) ELSE value

\* DevisParser._find_devis_reference: <<yymm, num, type>>, or <<>> for None
FindDevisReference(ls) ==
    IF ls = <<>> THEN <<>>
    ELSE LET compact == Call("RemoveCh", <<Head(ls), " ">>)
             m == IF Call("Contains", <<Call("Upper", <<Head(ls)>>), "DEVIS">>)
                  THEN Call("FirstMatch", <<SRX_RE, compact, FALSE>>) ELSE <<>>
         IN  IF m # <<>>
             THEN <<Call("GroupOf", <<m, compact, 4, 4>>), Call("GroupOf", <<m, compact, 6, 6>>), Call("GroupOf", <<m, compact, 5, 5>>)>>
             ELSE Call("FindDevisReference", <<Tail(ls)>>)

\* \s*:\s*([\d\s]+,\d{2}), the end of every label pattern of parse
AmountTail ==
    <<Spc(0, Inf), Cls({}, ":", 1, 1), Spc(0, Inf),
      Cls({"d", "s"}, "", 1, Inf), Cls({}, ",", 1, 1), Dig(2, 2)>>

\* DevisParser._find_amount_by_label for the pattern label \o AmountTail
FindAmountByLabel(ls, label) ==
    IF ls = <<>> THEN ""
    ELSE LET p == label \o AmountTail
             m == Call("FirstMatch", <<<<p>>, Head(ls), TRUE>>)
         IN  IF m # <<>> THEN Call("NormalizeAmount", <<Call("GroupOf", <<m, Head(ls), Len(p) - 2, Len(p)>>)>>)
             ELSE Call("FindAmountByLabel", <<Tail(ls), label>>)

\* Decimal(value) in hundredths, for a normalized amount "digits,dd"
AmountCents(value) ==
    LET compact == Call("RemoveCh", <<Call("RemoveCh", <<value, " ">>), NNBSP>>)
    IN  100 * Call("StrToNat", <<SubSeq(compact, 1, Len(compact) - 3)>>)
        + Call("StrToNat", <<SubSeq(compact, Len(compact) - 1, Len(compact))>>)

\* DevisParser._sum_amounts of the two amounts a and b
SumAmounts(a, b) ==
    IF a = "" /\ b = "" THEN ""
    ELSE LET total == (IF a = "" THEN 0 ELSE Call("AmountCents", <<a>>)) + (IF b = "" THEN 0 ELSE Call("AmountCents", <<b>>))
             cents == total % 100
         IN  Call("NatToStr", <<total \div 100>>) \o "," \o
             (IF cents < 10 THEN "0" ELSE "") \o Call("NatToStr", <<cents>>)

\* DevisParser._dump_lines_around; index is 1-based, 0 stands for None
DumpLines(ls, j, last) ==
    IF j > last THEN <<>>
    ELSE <<Call("NatToStr", <<j - 1>>) \o ":" \o ls[j]>> \o Call("DumpLines", <<ls, j + 1, last>>)

DumpLinesAround(ls, index) ==
    IF index = 0 THEN ""
    ELSE Call("Join", <<Call("DumpLines", <<ls, IF index > 7 THEN index - 7 ELSE 1,
                        IF index + 7 < Len(ls) THEN index + 7 ELSE Len(ls)>>), "\n">>)

\* DevisParser._find_pose_details as a function of the lines, from line i on
FindPoseDetailsFrom(ls, i, saw) ==
    IF i > Len(ls) THEN [pose_sold |-> FALSE, pose_amount |-> ""]
    ELSE IF Call("IsServicesMarker", <<ls[i]>>) THEN Call("FindPoseDetailsFrom", <<ls, i + 1, TRUE>>)
    ELSE IF saw /\ Call("HasPoseWord", <<ls[i]>>) /\ Call("ExtractPoseAmount", <<ls[i]>>) # ""
    THEN [pose_sold |-> TRUE, pose_amount |-> Call("ExtractPoseAmount", <<ls[i]>>)]
    ELSE Call("FindPoseDetailsFrom", <<ls, i + 1, saw>>)

\* text.splitlines(), for the line break "\n"
SplitLines(s) ==
    IF s = "" THEN <<>>
    ELSE LET n == FirstIdx(LAMBDA i : Ch(s, i) = "\n", 1, Len(s))
         IN  IF n > Len(s) THEN <<s>>
             ELSE <<SubSeq(s, 1, n - 1)>> \o Call("SplitLines", <<SubSeq(s, n + 1, Len(s))>>)

\* [f(x) for x in seq if keep(x)] for f = strip and keep = not blank
StripNonBlank(seq) ==
    IF seq = <<>> THEN <<>>
    ELSE (IF Call("Strip", <<Head(seq)>>) = "" THEN <<>> ELSE <<Call("Strip", <<Head(seq)>>)>>) \o Call("StripNonBlank", <<Tail(seq)>>)

\* the texts of seq that are not empty
NonEmpty(seq) ==
    IF seq = <<>> THEN <<>>
    ELSE (IF Head(seq) = "" THEN <<>> ELSE <<Head(seq)>>) \o Call("NonEmpty", <<Tail(seq)>>)

\* snapshot["text"][:160].replace("\n", " ") for each snapshot of texts
OcrExcerpts(texts) ==
    IF texts = <<>> THEN <<>>
    ELSE <<Call("Replace", <<SubSeq(Head(texts), 1, IF Len(Head(texts)) < 160 THEN Len(Head(texts)) ELSE 160),
                   "\n", " ">>)>> \o Call("OcrExcerpts", <<Tail(texts)>>)

\* a warning that is appended when cond holds
Warn(cond, text) == IF cond THEN <<text>> ELSE <<>>

\* DevisParser.parse on the extracted lines ls.  ocr is what _run_ocr_fallback
\* does when parse calls it: the stripped texts of the zones it read and the
\* warning it appended ("" for none).  debug is DevisParser.debug.  The
\* record keeps the keys of data except "lines" (the variable lines), "debug"
\* and the esc_ keys of the technical finders, which no other key depends on.
ParseDevis(ls, ocr, debug) ==
    LET fourniture_ht == Call("FindAmountByLabel", <<ls, Call("Lit", <<"prix de la fourniture ht">>)>>)
        direct_ht     == Call("FindAmountByLabel", <<ls, Call("Lit", <<"prix prestations et services ht">>)>>)
        total_ht      == Call("FindAmountByLabel", <<ls, Call("Lit", <<"total hors taxe">>)>>)
        services_ht   == Call("FindAmountByLabel", <<ls, Call("Lit", <<"prix">>) \o <<AnyCh(0, Inf)>> \o Call("Lit", <<"services">>)
                                                   \o <<AnyCh(0, Inf)>> \o Call("Lit", <<"ht">>)>>)
        eco_ht        == Call("FindAmountByLabel", <<ls, Call("Lit", <<"prix">>) \o <<AnyCh(0, Inf)>> \o Call("Lit", <<"eco">>)
                                                   \o <<AnyCh(0, Inf)>> \o Call("Lit", <<"ht">>)>>)
        prestations_ht == IF direct_ht # "" THEN direct_ht ELSE Call("SumAmounts", <<services_ht, eco_ht>>)
        devis_match   == Call("FindDevisReference", <<ls>>)
        ref_affaire   == Call("FindRefAffaire", <<ls>>)
        client0       == Call("FindClientDetails", <<ls>>)
        commercial0   == Call("FindCommercialDetails", <<ls>>)
        fallback      == Call("IsInvalidClientName", <<client0.nom>>) \/ Call("IsInvalidCommercialName", <<commercial0.nom>>)
        ocr_texts     == IF fallback THEN Call("NonEmpty", <<ocr.texts>>) ELSE <<>>
        ocr_lines     == Call("StripNonBlank", <<Call("SplitLines", <<Call("Join", <<ocr_texts, "\n">>)>>)>>)
        ocr_client    == Call("FindClientDetails", <<ocr_lines>>)
        ocr_commercial == Call("FindCommercialDetails", <<ocr_lines>>)
        client_ocr    == /\ ocr_lines # <<>>
                         /\ Call("IsInvalidClientName", <<client0.nom>>)
                         /\ ~Call("IsInvalidClientName", <<ocr_client.nom>>)
        commercial_ocr == /\ ocr_lines # <<>>
                          /\ Call("IsInvalidCommercialName", <<commercial0.nom>>)
                          /\ ~Call("IsInvalidCommercialName", <<ocr_commercial.nom>>)
        client_details == IF client_ocr THEN ocr_client ELSE client0
        commercial_details == IF commercial_ocr THEN ocr_commercial ELSE commercial0
        ocr_used      == client_ocr \/ commercial_ocr
        realise_par   == Call("Contains", <<Call("Lower", <<client_details.nom>>), "réalisé par">>)
        cp_ville_nom  == Call("Search", <<CP_VILLE_RE, commercial_details.nom, FALSE>>)
        srx_debug     == debug /\ Call("Contains", <<Call("RemoveCh", <<Call("Join", <<ls, "\n">>), " ">>), "SRX2511AFF037501">>)
        client_dump   == "[PARSE] context around Code client:\n"
                         \o Call("DumpLinesAround", <<ls, client_details.code_index>>)
        contact_dump  == "[PARSE] context around contact commercial:\n"
                         \o Call("DumpLinesAround", <<ls, commercial_details.contact_index>>)
        excerpt       == Call("Join", <<Call("OcrExcerpts", <<ocr_texts>>), " | ">>)
        pose          == Call("FindPoseDetailsFrom", <<ls, 1, FALSE>>)
        warnings ==
            Warn(ls = <<>>, "Texte du devis illisible ou vide.")
            \o Warn(direct_ht = "" /\ prestations_ht # "" /\ fourniture_ht = "",
                    "Fourniture absente: prestations calculées depuis SERVICES/ECO.")
            \o Warn(fallback /\ ocr.warning # "", ocr.warning)
            \o Warn(realise_par, "Client: nom contient 'Réalisé par'.\n" \o client_dump)
            \o Warn(debug /\ Call("IsInvalidClientName", <<client_details.nom>>),
                    "[DEBUG] Détection client incohérente.\n" \o client_dump)
            \o Warn(cp_ville_nom, "Commercial: nom ressemble à un CP/Ville.\n" \o contact_dump)
            \o Warn(debug /\ Call("IsInvalidCommercialName", <<commercial_details.nom>>),
                    "[DEBUG] Détection commercial incohérente.\n" \o contact_dump)
            \o Warn(srx_debug /\ realise_par, "Client SRX: nom contient 'Réalisé par'.")
            \o Warn(srx_debug /\ cp_ville_nom, "Client SRX: nom commercial ressemble à un CP/Ville.")
            \o << "DEBUG source=" \o (IF ocr_used THEN "OCR" ELSE "TEXT")
                  \o " client_nom=" \o client_details.nom
                  \o " commercial_nom=" \o commercial_details.nom >>
            \o Warn(ocr_used /\ excerpt # "", "OCR extrait: " \o excerpt)
            \o Warn(devis_match = <<>>, "Devis SRX introuvable.")
            \o Warn(ref_affaire = "", "Réf affaire introuvable.")
            \o Warn(client_details.nom = "", "Client introuvable (ancre 'Code client :').")
    IN  [ fourniture_ht |-> fourniture_ht,
          prestations_ht |-> prestations_ht,
          total_ht |-> total_ht,
          devis_annee_mois |-> IF devis_match = <<>> THEN "" ELSE devis_match[1],
          devis_num |-> IF devis_match = <<>> THEN "" ELSE devis_match[2],
          devis_type |-> IF devis_match = <<>> THEN "" ELSE devis_match[3],
          ref_affaire |-> ref_affaire,
          client_nom |-> client_details.nom,
          client_adresse1 |-> client_details.adresse1,
          client_adresse2 |-> client_details.adresse2,
          client_cp |-> client_details.cp,
          client_ville |-> client_details.ville,
          client_tel |-> client_details.tel,
          client_email |-> client_details.email,
          client_contact |-> client_details.contact,
          commercial_nom |-> commercial_details.nom,
          commercial_tel |-> commercial_details.tel,
          commercial_email |-> commercial_details.email,
          pose_sold |-> pose.pose_sold,
          pose_amount |-> pose.pose_amount,
          parse_warning |-> Call("Strip", <<Call("Join", <<warnings, " ">>)>>),
          client_adresse |-> "",
          commercial_tel2 |-> "" ]

-----------------------------------------------------------------------------
(* services/address_sanitizer.py                                           *)

\* POLLUTION_PATTERNS; the last one is written in the source with doubled
\* backslashes, so that it asks for a backslash before each run of "s"
POLLUTION_PATTERNS ==
    LET bs == <<Cls({}, "\\", 1, 1), Cls({}, "s", 0, Inf)>>
    IN  << Call("Lit", <<"vaugarny">>), Call("Lit", <<"bazouges">>), Call("Lit", <<"la perouse">>),
           <<B>> \o Call("Lit", <<"35560">>) \o <<B>>,
           Call("Lit", <<"rcs rennes">>), Call("Lit", <<"naf 1623z">>), Call("Lit", <<"sas au capital">>),
           Call("Lit", <<"tÃ©l">>) \o bs \o Call("Lit", <<":">>) \o bs \o Call("Lit", <<"02">>) \o bs \o Call("Lit", <<"99">>) \o bs
               \o Call("Lit", <<"97">>) \o bs \o Call("Lit", <<"45">>) \o bs \o Call("Lit", <<"40">>) >>

\* _contains_pollution
ContainsPollution(value) == Call("Search", <<POLLUTION_PATTERNS, value, TRUE>>)

\* strip_pollution_lines without the test "normalized not in cleaned"
StripPollutionLinesNoDedup(ls, cleaned) ==
    IF ls = <<>> THEN cleaned
    ELSE LET normalized == Call("Strip", <<Head(ls)>>)
         IN  IF normalized = "" \/ Call("ContainsPollution", <<normalized>>)
             THEN Call("StripPollutionLinesNoDedup", <<Tail(ls), cleaned>>)
             ELSE Call("StripPollutionLinesNoDedup", <<Tail(ls), Append(cleaned, normalized)>>)

\* strip_pollution_lines, appending to the lines already kept
StripPollutionLines(ls, cleaned) ==
    IF ls = <<>> THEN cleaned
    ELSE LET normalized == Call("Strip", <<Head(ls)>>)
         IN  IF \/ normalized = ""
                \/ Call("ContainsPollution", <<normalized>>)
                \/ \E i \in 1..Len(cleaned) : cleaned[i] = normalized
             THEN Call("StripPollutionLines", <<Tail(ls), cleaned>>)
             ELSE Call("StripPollutionLines", <<Tail(ls), Append(cleaned, normalized)>>)

\* _cp_ville_is_polluted
CpVilleIsPolluted(cp, ville) ==
    /\ ~(cp = "" /\ ville = "")
    /\ \/ cp = "35560"
       \/ Call("Contains", <<Call("Lower", <<ville>>), "bazouges">>)
       \/ Call("ContainsPollution", <<cp>>)
       \/ Call("ContainsPollution", <<ville>>)

\* deduce_cp_ville: <<cp, ville>>
DeduceCpVille(ls, cp, ville) ==
    IF ls = <<>> THEN <<cp, ville>>
    ELSE LET line == Head(ls)
             m == IF Call("ContainsPollution", <<line>>) THEN <<>> ELSE Call("FirstMatch", <<CP_VILLE_RE, line, FALSE>>)
             candidate_cp    == Call("GroupOf", <<m, line, 2, 2>>)
             candidate_ville == Call("Strip", <<Call("GroupOf", <<m, line, 4, 4>>)>>)
         IN  IF m = <<>> THEN Call("DeduceCpVille", <<Tail(ls), cp, ville>>)
             ELSE IF Call("CpVilleIsPolluted", <<candidate_cp, candidate_ville>>)
             THEN Call("DeduceCpVille", <<Tail(ls), cp, ville>>)
             ELSE LET cp2    == IF cp = "" THEN candidate_cp ELSE cp
                      ville2 == IF ville = "" THEN candidate_ville ELSE ville
                  IN  IF cp2 # "" /\ ville2 # "" THEN <<cp2, ville2>>
                      ELSE Call("DeduceCpVille", <<Tail(ls), cp2, ville2>>)

\* sanitize_client_address; doc_lines is data["lines"]
SanitizeClientAddress(data, doc_lines) ==
    LET direct_lines    == Call("StripPollutionLines", <<Call("SplitLines", <<data.client_adresse>>), <<>>>>)
        candidate_lines == Call("StripPollutionLines", <<
                               direct_lines \o <<data.client_adresse1, data.client_adresse2>>, <<>>>>)
        cp0    == Call("Strip", <<data.client_cp>>)
        ville0 == Call("Strip", <<data.client_ville>>)
        kept   == IF Call("CpVilleIsPolluted", <<cp0, ville0>>) THEN <<"", "">> ELSE <<cp0, ville0>>
        d1     == Call("DeduceCpVille", <<doc_lines, kept[1], kept[2]>>)
        d2     == Call("DeduceCpVille", <<candidate_lines, d1[1], d1[2]>>)
        final  == IF Call("CpVilleIsPolluted", <<d2[1], d2[2]>>) THEN <<"", "">> ELSE d2
        cp_ville_line == Call("Strip", <<Call("Join", <<Call("NonEmpty", <<final>>), " ">>)>>)
        listed == \E i \in 1..Len(candidate_lines) : candidate_lines[i] = cp_ville_line
        address_lines == IF cp_ville_line # "" /\ ~listed
                         THEN Append(candidate_lines, cp_ville_line) ELSE candidate_lines
    IN  [data EXCEPT !.client_cp = final[1],
                     !.client_ville = final[2],
                     !.client_adresse1 = IF Len(address_lines) > 0 THEN address_lines[1] ELSE "",
                     !.client_adresse2 = IF Len(address_lines) > 1 THEN address_lines[2] ELSE "",
                     !.client_adresse = Call("Join", <<address_lines, "\n">>)]

-----------------------------------------------------------------------------
(* services/validator.py                                                   *)

RIAUX_TOKENS ==
    << "VAUGARNY", "35560", "BAZOUGES", "BAZOUGES LA PEROUSE", "GROUPE RIAUX", "RIAUX",
       "1623Z", "RCS RENNES", "02 99 97 45 40", "@GROUPE-RIAUX.FR" >>

\* _contains_riaux
ContainsRiaux(value) == \E t \in 1..Len(RIAUX_TOKENS) : Call("Contains", <<Call("Upper", <<value>>), RIAUX_TOKENS[t]>>)

\* _clean_cp
CleanCp(cp) ==
    IF Len(Call("Strip", <<cp>>)) = 5 /\ Call("CountClass", <<Call("Strip", <<cp>>), Dig(1, 1)>>) = 5 THEN Call("Strip", <<cp>>) ELSE ""

\* _clean_amount
CleanAmount(value) ==
    LET v == Call("Strip", <<Call("Replace", <<value, NNBSP, " ">>)>>)
    IN  IF Call("AmountFindAll", <<v>>) = <<>> THEN "" ELSE Call("Strip", <<Call("CollapseSpaces", <<Call("Replace", <<v, ".", ",">>)>>)>>)

\* email_regex.fullmatch of validate_and_fix
EmailFullMatch(email) == MatchAt(EMAIL_RE[1] \o <<End>>, email, 1, TRUE) # <<>>

\* the contamination loop of validate_and_fix over the keys from k on:
\* [data, warnings]
ClearRiaux(fixed, warnings, keys, k) ==
    IF k > Len(keys) THEN [data |-> fixed, warnings |-> warnings]
    ELSE IF Call("ContainsRiaux", <<fixed[keys[k]]>>)
    THEN Call("ClearRiaux", <<[fixed EXCEPT ![keys[k]] = ""],
                    Append(warnings, IF keys[k] = "client_nom"
                                     THEN "Client contient une pollution RIAUX"
                                     ELSE keys[k] \o " contient une pollution RIAUX"),
                    keys, k + 1>>)
    ELSE Call("ClearRiaux", <<fixed, warnings, keys, k + 1>>)

\* the amount loop of validate_and_fix: [data, warnings]
CleanAmounts(fixed, warnings, keys, k) ==
    IF k > Len(keys) THEN [data |-> fixed, warnings |-> warnings]
    ELSE LET cleaned == Call("CleanAmount", <<fixed[keys[k]]>>)
         IN  Call("CleanAmounts", <<[fixed EXCEPT ![keys[k]] = cleaned],
                          warnings \o Warn(fixed[keys[k]] # "" /\ cleaned = "",
                                           "Montant invalide pour " \o keys[k]),
                          keys, k + 1>>)

\* the email loop of validate_and_fix: [data, warnings]
CheckEmails(fixed, warnings, keys, k) ==
    IF k > Len(keys) THEN [data |-> fixed, warnings |-> warnings]
    ELSE IF fixed[keys[k]] # "" /\ ~Call("EmailFullMatch", <<fixed[keys[k]]>>)
    THEN Call("CheckEmails", <<[fixed EXCEPT ![keys[k]] = ""],
                     Append(warnings, "Email invalide pour " \o keys[k]), keys, k + 1>>)
    ELSE Call("CheckEmails", <<fixed, warnings, keys, k + 1>>)

\* validate_and_fix: [data, warnings]
ValidateAndFix(data, doc_lines) ==
    LET s1 == Call("ClearRiaux", <<Call("SanitizeClientAddress", <<data, doc_lines>>), <<>>,
                         <<"client_nom", "client_adresse1", "client_adresse2",
                           "client_ville", "client_cp">>, 1>>)
        s2 == Call("CleanAmounts", <<[s1.data EXCEPT !.client_cp = Call("CleanCp", <<s1.data.client_cp>>)], s1.warnings,
                           <<"fourniture_ht", "prestations_ht", "total_ht", "pose_amount">>, 1>>)
        ref == s2.data.ref_affaire
        s3 == IF Call("StartsWith", <<Call("Lower", <<ref>>), "réf affaire">>)
              THEN [s2.data EXCEPT !.ref_affaire = Call("Strip", <<Call("AfterColon", <<ref>>)>>)] ELSE s2.data
    IN  Call("CheckEmails", <<s3, s2.warnings, <<"client_email", "commercial_email">>, 1>>)

-----------------------------------------------------------------------------
(* services/data_normalizer.py                                             *)

\* SRX_RE of data_normalizer.py, compiled with re.IGNORECASE
NORMALIZER_SRX_RE == << Call("Lit", <<"srx">>) \o <<Dig(4, 4), Cls({"az"}, "", 3, 3), Dig(6, 6)>> >>

\* the keys of the record that hold text, in the insertion order of the dict
StrKeys ==
    << "fourniture_ht", "prestations_ht", "total_ht", "devis_annee_mois", "devis_num",
       "devis_type", "ref_affaire", "client_nom", "client_adresse1", "client_adresse2",
       "client_cp", "client_ville", "client_tel", "client_email", "client_contact",
       "commercial_nom", "commercial_tel", "commercial_email", "pose_amount",
       "parse_warning", "client_adresse", "commercial_tel2" >>

\* the int_part loop of _format_amount_fr: a space before each group of three
GroupThousands(int_part) ==
    IF Len(int_part) > 3
    THEN Call("GroupThousands", <<SubSeq(int_part, 1, Len(int_part) - 3)>>) \o " "
         \o SubSeq(int_part, Len(int_part) - 2, Len(int_part))
    ELSE int_part

\* _format_amount_fr for a text value.  Decimal() is modelled for the
\* spellings sign, digits, one point, digits: a text with another character
\* is one Decimal() refuses.  quantize rounds half to even.
FormatAmountFr(value) ==
    IF value = "" THEN ""
    ELSE
    LET text    == Call("Strip", <<value>>)
        cleaned == Call("Replace", <<Call("RemoveCh", <<text, " ">>), ",", ".">>)
        signed  == cleaned # "" /\ Head(cleaned) \in {"+", "-"}
        body    == IF signed THEN Tail(cleaned) ELSE cleaned
        points  == Call("CountClass", <<body, Cls({}, ".", 1, 1)>>)
        digits  == Call("CountClass", <<body, Dig(1, 1)>>)
        valid   == digits >= 1 /\ points <= 1 /\ digits + points = Len(body)
        dot     == IF points = 0 THEN Len(body) + 1
                   ELSE CHOOSE i \in 1..Len(body) : Ch(body, i) = "."
        frac    == SubSeq(body, dot + 1, Len(body)) \o "00"
        rem     == SubSeq(frac, 3, Len(frac))
        floor   == 100 * Call("StrToNat", <<SubSeq(body, 1, dot - 1)>>) + Call("StrToNat", <<SubSeq(frac, 1, 2)>>)
        first   == IF rem = "" THEN 0 ELSE Call("StrToNat", <<Ch(rem, 1)>>)
        more    == rem # "" /\ Call("StrToNat", <<Tail(rem)>>) > 0
        up      == first > 5 \/ (first = 5 /\ (more \/ floor % 2 = 1))
        cents   == floor + (IF up THEN 1 ELSE 0)
        int_part == (IF signed /\ Head(cleaned) = "-" THEN "-" ELSE "") \o Call("NatToStr", <<cents \div 100>>)
    IN  IF ~valid THEN text
        ELSE Call("GroupThousands", <<int_part>>) \o ","
             \o (IF cents % 100 < 10 THEN "0" ELSE "") \o Call("NatToStr", <<cents % 100>>)

\* the search of _normalize_srx through the values of the record, from key k on
SrxInValues(data, k) ==
    IF k > Len(StrKeys) THEN <<>>
    ELSE LET value == data[StrKeys[k]]
             m == IF Call("Contains", <<Call("Upper", <<value>>), "SRX">>)
                  THEN Call("FirstMatch", <<NORMALIZER_SRX_RE, value, TRUE>>) ELSE <<>>
         IN  IF m # <<>> THEN <<Call("GroupOf", <<m, value, 4, 4>>), Call("GroupOf", <<m, value, 5, 5>>),
                                Call("GroupOf", <<m, value, 6, 6>>)>>
             ELSE Call("SrxInValues", <<data, k + 1>>)

\* _normalize_srx of data_normalizer.py
NormalizeSrx(data) ==
    LET candidate == Call("Strip", <<data.devis_num>>)
        m0 == Call("FirstMatch", <<NORMALIZER_SRX_RE, candidate, TRUE>>)
        groups == IF m0 # <<>>
                  THEN <<Call("GroupOf", <<m0, candidate, 4, 4>>), Call("GroupOf", <<m0, candidate, 5, 5>>),
                         Call("GroupOf", <<m0, candidate, 6, 6>>)>>
                  ELSE Call("SrxInValues", <<data, 1>>)
        yymm == Call("Strip", <<data.devis_annee_mois>>)
    IN  IF groups # <<>>
        THEN [data EXCEPT !.devis_annee_mois = groups[1], !.devis_type = groups[2],
                          !.devis_num = groups[3]]
        ELSE IF Len(yymm) = 6 /\ Call("CountClass", <<yymm, Dig(1, 1)>>) = 6
        THEN [data EXCEPT !.devis_annee_mois = SubSeq(yymm, 3, 6)]
        ELSE data

\* normalize_extracted_data; doc_lines is data["lines"]
NormalizeExtractedData(data, doc_lines) ==
    LET n1 == Call("NormalizeSrx", <<data>>)
        n2 == [n1 EXCEPT !.fourniture_ht = Call("FormatAmountFr", <<n1.fourniture_ht>>),
                         !.prestations_ht = Call("FormatAmountFr", <<n1.prestations_ht>>),
                         !.total_ht = Call("FormatAmountFr", <<n1.total_ht>>),
                         !.pose_amount = Call("FormatAmountFr", <<n1.pose_amount>>)]
        n3 == [k \in DOMAIN n2 |->
                 IF k \in {"pose_sold", "parse_warning"} THEN n2[k] ELSE Call("Strip", <<n2[k]>>)]
        n4 == Call("SanitizeClientAddress", <<n3, doc_lines>>)
        address_lines == Call("NonEmpty", <<<<Call("Strip", <<n4.client_adresse1>>), Call("Strip", <<n4.client_adresse2>>)>>>>)
        cp_ville == Call("Strip", <<Call("Join", <<Call("NonEmpty", <<<<Call("Strip", <<n4.client_cp>>), Call("Strip", <<n4.client_ville>>)>>>>), " ">>)>>)
        listed == \E i \in 1..Len(address_lines) : address_lines[i] = cp_ville
        all_lines == IF cp_ville # "" /\ ~listed THEN Append(address_lines, cp_ville)
                     ELSE address_lines
    IN  IF all_lines # <<>> THEN [n4 EXCEPT !.client_adresse = Call("Join", <<all_lines, "\n">>)] ELSE n4

-----------------------------------------------------------------------------
(* main.py: MainWindow._merge_data and the retry test of _extract_data     *)

\* MainWindow._merge_data; override holds the keys the producer returned
MergeData(base, override) ==
    [k \in DOMAIN base |->
        IF k \in DOMAIN override /\ (k = "pose_sold" \/ override[k] # "")
        THEN override[k] ELSE base[k]]

\* the fields of the contamination invariant
ClientFields ==
    { "client_nom", "client_adresse1", "client_adresse2", "client_cp", "client_ville",
      "client_tel", "client_email" }

\* has_riaux_pollution, which main.py imports from services.address_sanitizer
\* and src/ does not define: the contamination filter of that module applied
\* to the counterparty fields of the candidate
HasRiauxPollution(candidate) == \E k \in ClientFields : Call("ContainsPollution", <<candidate[k]>>)

-----------------------------------------------------------------------------
(* services/validators.py and BdcFiller._validate_output_fields            *)

BANNED_CLIENT_TOKENS == << "riaux", "vaugarny", "bazouges", "35560" >>

\* validate_bdc_data with the amount checked before the reference
ValidateBdcDataAmountFirst(data) ==
    LET client_nom == Call("Strip", <<data.client_nom>>)
    IN  IF client_nom = "" THEN [ok |-> FALSE, message |-> "Client manquant dans le devis."]
        ELSE IF \E t \in 1..Len(BANNED_CLIENT_TOKENS) :
                   Call("Contains", <<Call("Lower", <<client_nom>>), BANNED_CLIENT_TOKENS[t]>>)
        THEN [ok |-> FALSE, message |-> "Client invalide détecté: " \o client_nom \o "."]
        ELSE IF Call("Strip", <<data.fourniture_ht>>) = ""
        THEN [ok |-> FALSE, message |-> "Montant fourniture HT manquant."]
        ELSE IF ~Call("Contains", <<Call("Lower", <<Call("Strip", <<data.devis_annee_mois>>)>>), "srx">>)
        THEN [ok |-> FALSE, message |-> "Référence devis invalide (SRX manquant)."]
        ELSE [ok |-> TRUE, message |-> ""]

\* validate_bdc_data: [ok, message]
ValidateBdcData(data) ==
    LET client_nom == Call("Strip", <<data.client_nom>>)
    IN  IF client_nom = "" THEN [ok |-> FALSE, message |-> "Client manquant dans le devis."]
        ELSE IF \E t \in 1..Len(BANNED_CLIENT_TOKENS) :
                   Call("Contains", <<Call("Lower", <<client_nom>>), BANNED_CLIENT_TOKENS[t]>>)
        THEN [ok |-> FALSE, message |-> "Client invalide détecté: " \o client_nom \o "."]
        ELSE IF ~Call("Contains", <<Call("Lower", <<Call("Strip", <<data.devis_annee_mois>>)>>), "srx">>)
        THEN [ok |-> FALSE, message |-> "Référence devis invalide (SRX manquant)."]
        ELSE IF Call("Strip", <<data.fourniture_ht>>) = ""
        THEN [ok |-> FALSE, message |-> "Montant fourniture HT manquant."]
        ELSE [ok |-> TRUE, message |-> ""]

\* BdcFiller._validate_output_fields on the output of fill, whose fields
\* bdc_devis_num and bdc_devis_annee_mois hold what _build_fields gave them:
\* the message of the ValueError it raises, "" when it returns
ValidateOutputFields(data) ==
    IF data.devis_num = "" THEN "Champ critique manquant dans le PDF: bdc_devis_num"
    ELSE IF data.devis_annee_mois = ""
    THEN "Champ critique manquant dans le PDF: bdc_devis_annee_mois"
    ELSE ""

\* the record with every key empty
EmptyRecord ==
    [k \in {StrKeys[i] : i \in 1..Len(StrKeys)} \cup {"pose_sold"} |->
        IF k = "pose_sold" THEN FALSE ELSE ""]

\* the values of the variables a specification does not use
PoseIdle == idx = 0 /\ saw_prestations = FALSE /\ pose_sold = FALSE /\ pose_amount = ""

RunIdle ==
    /\ run_candidate = EmptyRecord
    /\ checked = EmptyRecord
    /\ validation_warnings = <<>>
    /\ noted = <<>>
    /\ calls = 0
    /\ pose_status = "rule"

NoCache == [p \in {} |-> <<>>]

NoRow == [p \in {} |-> FALSE]

SideIdle ==
    /\ verdict = [ok |-> TRUE, message |-> ""]
    /\ fill_error = ""
    /\ debug_cache = NoCache
    /\ row = NoRow

MaxPoseLines == 3

PoseLines ==
    { "PRESTATIONS ET SERVICES",
      "Pose escalier 1 500,00",
      "Pose 1,00",
      "Pose 1,00 €",
      "Pose 0,00",
      "Pose garde-corps 800.50 €",
      "Livraison 250,00",
      "OPTIONS" }

PoseDocs == UNION { [1..n -> PoseLines] : n \in 0..MaxPoseLines }

InitPose ==
    /\ pc = "scan"
    /\ lines \in PoseDocs
    /\ idx = 1
    /\ saw_prestations = FALSE
    /\ pose_sold = FALSE
    /\ pose_amount = ""
    /\ run_data = EmptyRecord
    /\ RunIdle
    /\ SideIdle

\* _find_pose_details without its "if not saw_prestations: continue"
PoseStepNoGate ==
    /\ pc = "scan"
    /\ idx <= Len(lines)
    /\ LET line == lines[idx]
           amount == Call("ExtractPoseAmount", <<line>>)
       IN  IF Call("IsServicesMarker", <<line>>)
           THEN /\ saw_prestations' = TRUE
                /\ idx' = idx + 1
                /\ UNCHANGED <<pc, pose_sold, pose_amount>>
           ELSE IF Call("HasPoseWord", <<line>>) /\ amount # ""
           THEN /\ pose_sold' = TRUE
                /\ pose_amount' = amount
                /\ pc' = "done"
                /\ UNCHANGED <<idx, saw_prestations>>
           ELSE /\ idx' = idx + 1
                /\ UNCHANGED <<pc, saw_prestations, pose_sold, pose_amount>>
    /\ UNCHANGED <<lines, runVars, sideVars>>

\* _find_pose_details without its break: the scan goes on after a match
PoseStepNoBreak ==
    /\ pc = "scan"
    /\ idx <= Len(lines)
    /\ LET line == lines[idx]
           amount == Call("ExtractPoseAmount", <<line>>)
       IN  IF Call("IsServicesMarker", <<line>>)
           THEN /\ saw_prestations' = TRUE
                /\ idx' = idx + 1
                /\ UNCHANGED <<pc, pose_sold, pose_amount>>
           ELSE IF ~saw_prestations
           THEN /\ idx' = idx + 1
                /\ UNCHANGED <<pc, saw_prestations, pose_sold, pose_amount>>
           ELSE IF Call("HasPoseWord", <<line>>) /\ amount # ""
           THEN /\ pose_sold' = TRUE
                /\ pose_amount' = amount
                /\ idx' = idx + 1
                /\ UNCHANGED <<pc, saw_prestations>>
           ELSE /\ idx' = idx + 1
                /\ UNCHANGED <<pc, saw_prestations, pose_sold, pose_amount>>
    /\ UNCHANGED <<lines, runVars, sideVars>>

\* one iteration of the for loop of _find_pose_details
PoseStep ==
    /\ pc = "scan"
    /\ idx <= Len(lines)
    /\ LET line == lines[idx]
           amount == Call("ExtractPoseAmount", <<line>>)
       IN  IF Call("IsServicesMarker", <<line>>)
           THEN /\ saw_prestations' = TRUE
                /\ idx' = idx + 1
                /\ UNCHANGED <<pc, pose_sold, pose_amount>>
           ELSE IF ~saw_prestations
           THEN /\ idx' = idx + 1
                /\ UNCHANGED <<pc, saw_prestations, pose_sold, pose_amount>>
           ELSE IF Call("HasPoseWord", <<line>>) /\ amount # ""
           THEN /\ pose_sold' = TRUE
                /\ pose_amount' = amount
                /\ pc' = "done"
                /\ UNCHANGED <<idx, saw_prestations>>
           ELSE /\ idx' = idx + 1
                /\ UNCHANGED <<pc, saw_prestations, pose_sold, pose_amount>>
    /\ UNCHANGED <<lines, runVars, sideVars>>

\* the loop ran out of lines: return pose_sold, pose_amount
PoseReturn ==
    /\ pc = "scan"
    /\ idx > Len(lines)
    /\ pc' = "done"
    /\ UNCHANGED <<lines, poseVars, runVars, sideVars>>

NextPose == PoseStep \/ PoseReturn

SpecPose == InitPose /\ [][NextPose]_vars

(***************************************************************************)
(* MainWindow._extract_data (main.py 303-342): one run over one document.  *)
(* The document is its LineSequence; the OCR engine and the alternative    *)
(* producer (Gemini) are the environment, so what they return is chosen    *)
(* from small sets.                                                        *)
(***************************************************************************)

\* the segments the documents of the runs are made of
HeaderSegments ==
    { <<>>,
      <<"DEVIS N° SRX2511AFF037501", "Réf affaire : Dupont">> }

ClientSegments ==
    { <<"Code client : 1234">>,
      <<"Client Final", "Code client : 1234">>,
      <<"GROUPE RIAUX", "Code client : 1234">> }

\* the address lines and the telephone and mail lines under them
AddressSegments ==
    { <<"12 rue des Lilas", "75001 PARIS",
        "Tél : 02 99 97 45 40", "Mail : contact@groupe-riaux.fr">>,
      <<"ZA de Vaugarny", "35560 BAZOUGES LA PEROUSE">>,
      <<"35000 RENNES GROUPE RIAUX",
        "Tél : 02 99 97 45 40", "Mail : contact@groupe-riaux.fr">> }

CommercialSegments ==
    { <<"Contact commercial : BUCHE Kevin">> }

AmountSegments ==
    { <<>>,
      <<"PRIX DE LA FOURNITURE HT : 4 894,08 €",
        "PRIX PRESTATIONS ET SERVICES HT : 1 200,00 €",
        "TOTAL HORS TAXE : 6 094,08 €">>,
      <<"PRIX DE LA FOURNITURE HT : 4 894,08 €",
        "PRIX PRESTATIONS ET SERVICES HT : 1 200,00 €">> }

\* the heading and the amounts are printed together or not at all
Documents ==
    { hm[1] \o c \o a \o k \o hm[2] :
        hm \in { x \in HeaderSegments \X AmountSegments : (x[1] = <<>>) <=> (x[2] = <<>>) },
        c \in ClientSegments, a \in AddressSegments, k \in CommercialSegments }

\* BDC_DEBUG is not set
Debug == FALSE

\* DevisParser.parse calls _run_ocr_fallback only under this condition
OcrFallbackNeeded(ls) ==
    \/ Call("IsInvalidClientName", <<Call("FindClientDetails", <<ls>>).nom>>)
    \/ Call("IsInvalidCommercialName", <<Call("FindCommercialDetails", <<ls>>).nom>>)

\* what _run_ocr_fallback can come back with: the stripped texts of the zones
\* read before it returned or caught an exception, and the warning it appended
OcrOutcomes(ls) ==
    IF Call("OcrFallbackNeeded", <<ls>>)
    THEN { [texts |-> <<>>,
            warning |-> "WARNING: OCR Windows indisponible (WinRT OCR indisponible: modules WinRT non accessibles.)."],
           [texts |-> <<"BERVAL MAISONS\nCode client : 1234", "Contact commercial : BUCHE Kevin">>,
            warning |-> ""],
           [texts |-> <<"BERVAL MAISONS\nCode client : 1234">>,
            warning |-> "WARNING: échec OCR Windows (zone illisible)."] }
    ELSE { [texts |-> <<>>, warning |-> ""] }

\* what extract_from_text can return: any JSON object; these are the ones the
\* runs are explored with (keys that are absent or empty leave the record alone)
GeminiOutputs ==
    { [ client_nom |-> "Client Final", devis_annee_mois |-> "2511", devis_type |-> "AFF",
        devis_num |-> "037501", ref_affaire |-> "Dupont", fourniture_ht |-> "4 894,08",
        prestations_ht |-> "1 200,00", total_ht |-> "6 094,08", pose_sold |-> FALSE ],
      [ devis_num |-> "037501", client_nom |-> "Autre Client",
        parse_warning |-> "Montants à vérifier." ],
      [ client_nom |-> "Autre Client", client_adresse1 |-> "ZA de Vaugarny",
        client_cp |-> "35560", client_ville |-> "BAZOUGES LA PEROUSE",
        client_tel |-> "02 99 97 45 40", pose_sold |-> TRUE ] }

critical_keys ==
    {"client_nom", "ref_affaire", "devis_num", "devis_annee_mois",
     "fourniture_ht", "prestations_ht", "total_ht"}

\* any(not data.get(key) for key in critical_keys)
AnyCriticalKeyEmpty(d) == \E k \in critical_keys : d[k] = ""

\* data["parse_warning"] = " ".join([existing, *warnings]).strip(), when there
\* are warnings
AppendWarnings(d, ws) ==
    IF ws = <<>> THEN d
    ELSE [d EXCEPT !.parse_warning = Call("Strip", <<Call("Join", <<<<d.parse_warning>> \o ws, " ">>)>>)]

Init ==
    /\ pc = "parse"
    /\ lines \in Documents
    /\ PoseIdle
    /\ run_data = EmptyRecord
    /\ RunIdle
    /\ SideIdle

\* data = self.parser.parse(path); pose_status = "rule"
Parse ==
    /\ pc = "parse"
    /\ \E ocr \in Call("OcrOutcomes", <<lines>>) : run_data' = Call("ParseDevis", <<lines, ocr, Debug>>)
    /\ noted' = <<run_data'.parse_warning>>
    /\ pose_status' = "rule"
    /\ pc' = "validate"
    /\ UNCHANGED <<lines, poseVars, run_candidate, checked, validation_warnings, calls, sideVars>>

\* data, validation_warnings = validate_and_fix(data), and the warnings go
\* into parse_warning
Validate ==
    /\ pc = "validate"
    /\ \E r \in {Call("ValidateAndFix", <<run_data, lines>>)} :
           /\ checked' = run_data
           /\ validation_warnings' = r.warnings
           /\ run_data' = Call("AppendWarnings", <<r.data, r.warnings>>)
           /\ noted' = noted \o r.warnings
    /\ pc' = "fallback"
    /\ UNCHANGED <<lines, poseVars, run_candidate, calls, pose_status, sideVars>>

\* no extractor (Gemini disabled, no key, or its construction failed), or no
\* critical key is empty
SkipGemini ==
    /\ pc = "fallback"
    /\ \E extractor \in BOOLEAN : ~(extractor /\ Call("AnyCriticalKeyEmpty", <<run_data>>))
    /\ pc' = "normalize"
    /\ UNCHANGED <<lines, poseVars, runVars, sideVars>>

\* the calls of _call_model one extract_from_text makes: the prompt, and the
\* prompt of _repair_json when _parse_json finds no JSON object in the answer
ModelCalls == {1, 2}

\* result = extractor.extract_from_text(text);
\* candidate = self._merge_data(data, result.data)
GeminiCall ==
    /\ pc = "fallback"
    /\ Call("AnyCriticalKeyEmpty", <<run_data>>)
    /\ Call("Strip", <<Call("Join", <<lines, "\n">>)>>) # ""
    /\ \E result \in GeminiOutputs :
         run_candidate' = Call("MergeData", <<run_data, result>>)
    /\ \E n \in ModelCalls : calls' = calls + n
    /\ pc' = IF Call("HasRiauxPollution", <<run_candidate'>>) THEN "retry" ELSE "accept"
    /\ UNCHANGED <<lines, poseVars, run_data, checked, validation_warnings, noted,
                   pose_status, sideVars>>

\* the second call, with the retry note, and the merge into the same data
GeminiRetry ==
    /\ pc = "retry"
    /\ \E result \in GeminiOutputs :
         run_candidate' = Call("MergeData", <<run_data, result>>)
    /\ \E n \in ModelCalls : calls' = calls + n
    /\ pc' = "accept"
    /\ UNCHANGED <<lines, poseVars, run_data, checked, validation_warnings, noted,
                   pose_status, sideVars>>

\* extract_from_text raises (network, empty or unreadable answer): the
\* except branch logs and data stays what it was
GeminiFail ==
    /\ \/ pc = "fallback" /\ Call("AnyCriticalKeyEmpty", <<run_data>>)
       \/ pc = "retry"
    /\ \E n \in ModelCalls : calls' = calls + n
    /\ pc' = "normalize"
    /\ UNCHANGED <<lines, poseVars, run_data, run_candidate, checked, validation_warnings,
                   noted, pose_status, sideVars>>

\* candidate, val_w = validate_and_fix(candidate); data = candidate;
\* the warnings go into parse_warning; pose_status = "gemini"
ValidateCandidate ==
    /\ pc = "accept"
    /\ \E r \in {Call("ValidateAndFix", <<run_candidate, lines>>)} :
           /\ checked' = run_candidate
           /\ validation_warnings' = r.warnings
           /\ run_data' = Call("AppendWarnings", <<r.data, r.warnings>>)
           /\ noted' = noted \o r.warnings
    /\ pose_status' = "gemini"
    /\ pc' = "normalize"
    /\ UNCHANGED <<lines, poseVars, run_candidate, calls, sideVars>>

\* data = normalize_extracted_data(data); return data, pose_status
Normalize ==
    /\ pc = "normalize"
    /\ run_data' = Call("NormalizeExtractedData", <<run_data, lines>>)
    /\ pc' = "returned"
    /\ UNCHANGED <<lines, poseVars, run_candidate, checked, validation_warnings, noted,
                   calls, pose_status, sideVars>>

Next ==
    \/ Parse
    \/ Validate
    \/ SkipGemini
    \/ GeminiCall
    \/ GeminiRetry
    \/ GeminiFail
    \/ ValidateCandidate
    \/ Normalize

Spec == Init /\ [][Next]_vars

-----------------------------------------------------------------------------
(* Claims about the pose scanner, checked under SpecPose                   *)

\* the indices of the lines that contain the services-section marker
MarkerIndices == { j \in 1..Len(lines) : Call("IsServicesMarker", <<lines[j]>>) }

FirstMarker == CHOOSE m \in MarkerIndices : \A j \in MarkerIndices : m <= j

\* an installation line from which the scanner extracts an amount
Qualifies(line) == Call("HasPoseWord", <<line>>) /\ Call("ExtractPoseAmount", <<line>>) # ""

\* the indices of the qualifying installation lines inside the scanned region
QualifyingIndices ==
    IF MarkerIndices = {} THEN {}
    ELSE { j \in 1..Len(lines) :
             j > FirstMarker /\ ~Call("IsServicesMarker", <<lines[j]>>) /\ Call("Qualifies", <<lines[j]>>) }

\* an installation line whose only amount is zero or the placeholder 1,00,
\* with or without a currency symbol after it
ZeroOrPlaceholderLine(line) ==
    /\ Call("HasPoseWord", <<line>>)
    /\ Len(Call("AmountFindAll", <<line>>)) = 1
    /\ Call("NormalizeAmount", <<Call("AmountFindAll", <<line>>)[1]>>) \in {"0,00", "1,00"}

\* C5: an installation line of the services section whose amount is exactly
\* zero or the placeholder 1,00 never sets pose_sold, whatever the formatting
\* of the amount; the line that set pose_sold is never such a line.
C5_PlaceholderNeverSells ==
    /\ (pc = "done" /\ pose_sold) => ~Call("ZeroOrPlaceholderLine", <<lines[idx]>>)
    /\ (pc = "done" /\ MarkerIndices # {}
          /\ \E j \in 1..Len(lines) :
                j > FirstMarker /\ lines[j] = "Pose escalier 1 500,00")
         => pose_sold

\* C6: pose_sold is set only by a line that contains the installation word
\* and lies strictly after the first services-marker line; lines before the
\* marker and marker lines never set it, and without an installation line
\* after the marker the result is false.
C6_PoseOnlyAfterMarker ==
    /\ pose_sold =>
         /\ MarkerIndices # {}
         /\ idx > FirstMarker
         /\ Call("HasPoseWord", <<lines[idx]>>)
         /\ ~Call("IsServicesMarker", <<lines[idx]>>)
    /\ (pc = "done" /\ ~(\E j \in 1..Len(lines) :
                           MarkerIndices # {} /\ j > FirstMarker /\ Call("HasPoseWord", <<lines[j]>>)))
         => (~pose_sold /\ pose_amount = "")
    /\ Call("DetectPose", <<lines>>) =>
         \E j \in 1..Len(lines) :
            /\ MarkerIndices # {}
            /\ j > FirstMarker
            /\ ~Call("IsServicesMarker", <<lines[j]>>)
            /\ Call("Contains", <<Call("Lower", <<lines[j]>>), "pose">>)

\* C6 witness: the scan ended with pose_sold set although a qualifying
\* installation line stood before the marker and was passed over.
C6_Witness ==
    /\ pc = "done"
    /\ pose_sold
    /\ \E j \in 1..Len(lines) : j < FirstMarker /\ Call("Qualifies", <<lines[j]>>)

\* a heading that opens a differently named section: a line of capital
\* letters only that is not the services marker
IsOtherSectionHeading(line) ==
    /\ line # ""
    /\ ~Call("IsServicesMarker", <<line>>)
    /\ \A i \in 1..Len(line) : IsLetter(Ch(line, i)) /\ UpperCh(Ch(line, i)) = Ch(line, i)

\* C7: once a differently named section begins after the services section the
\* scanner has left it: an installation line of a later section never sets
\* pose_sold.
C7_LeavesServicesSection ==
    (pc = "done" /\ pose_sold) =>
        ~(\E h \in 1..Len(lines) :
            h > FirstMarker /\ h < idx /\ Call("IsOtherSectionHeading", <<lines[h]>>))

\* C8: with several qualifying installation lines after the marker, the
\* result is that of the first of them in line order: the scan stops on it
\* and pose_amount is its normalized amount, whatever follows.
C8_FirstMatchWins ==
    /\ pose_sold =>
         /\ QualifyingIndices # {}
         /\ \A j \in QualifyingIndices : idx <= j
         /\ idx \in QualifyingIndices
         /\ pose_amount = Call("ExtractPoseAmount", <<lines[idx]>>)
         /\ pc = "done"
    /\ (pc = "done" /\ QualifyingIndices # {}) => pose_sold

\* C8 witness: the scan stopped on the first qualifying line while a later
\* qualifying line carries another amount.
C8_Witness ==
    /\ pc = "done"
    /\ pose_sold
    /\ \E j \in QualifyingIndices :
         j > idx /\ Call("ExtractPoseAmount", <<lines[j]>>) # pose_amount

-----------------------------------------------------------------------------
(* The client address: the extractor's block, then sanitize_client_address *)
(* as validate_and_fix, normalize_extracted_data and the form writer apply *)
(* it, one call after the other, to the record that carries the lines.     *)

\* the record DevisParser.parse builds from the client block (lines 299-306)
ClientRecord(d) ==
    [EmptyRecord EXCEPT !.client_nom = d.nom,
                        !.client_adresse1 = d.adresse1,
                        !.client_adresse2 = d.adresse2,
                        !.client_cp = d.cp,
                        !.client_ville = d.ville,
                        !.client_tel = d.tel,
                        !.client_email = d.email,
                        !.client_contact = d.contact]

AddressAnchor == "Code client : 1234"

\* the lines between the anchor and the stop marker
AddressBlocks ==
    { <<>>,
      <<"12 rue des Lilas">>,
      <<"12 rue des Lilas", "75001 PARIS">>,
      <<"Bât B", "12 rue des Lilas", "75001 PARIS">>,
      <<"ZA de Vaugarny", "35560 BAZOUGES LA PEROUSE">> }

\* lines CLIENT_STOP_RE matches
StopMarkers ==
    { <<>>,
      <<"Tél : 01 02 03 04 05">>,
      <<"Contact commercial : BUCHE Kevin">>,
      <<"Validité du devis : 1 mois">> }

\* the lines after the stop marker
AfterStop ==
    { <<>>,
      <<"69002 LYON">>,
      <<"8 avenue Foch", "69002 LYON">> }

AddressDocs ==
    { <<"Client Final", AddressAnchor>> \o a \o st[1] \o st[2] :
        a \in AddressBlocks,
        st \in { x \in StopMarkers \X AfterStop : x[1] # <<>> \/ x[2] = <<>> } }

\* records as a caller of sanitize_client_address can hold them
SanitizeRecords ==
    { [EmptyRecord EXCEPT !.client_adresse1 = a1, !.client_adresse2 = a2,
                          !.client_cp = cp, !.client_ville = ville, !.client_adresse = adr] :
        a1 \in {"", "12 rue des Lilas", "ZA de Vaugarny", "75001 PARIS"},
        a2 \in {"", "Bât B", "35560 BAZOUGES LA PEROUSE"},
        cp \in {"", "75001", "35560"},
        ville \in {"", " Lyon ", "Bazouges"},
        adr \in {"", "12 rue des Lilas\n75001 PARIS"} }

SanitizeLines == { <<>>, <<"69002 LYON">> }

\* sanitize_client_address runs in validate_and_fix, in
\* normalize_extracted_data and in BdcFiller._build_client_adresse
MaxSanitize == 3

InitAddress ==
    /\ \/ pc = "extract" /\ lines \in AddressDocs /\ run_data = EmptyRecord
       \/ pc = "sanitize" /\ lines \in SanitizeLines /\ run_data \in SanitizeRecords
    /\ PoseIdle
    /\ RunIdle
    /\ SideIdle

\* _find_client_details on the lines of the document
ExtractClient ==
    /\ pc = "extract"
    /\ run_data' = Call("ClientRecord", <<Call("FindClientDetails", <<lines>>)>>)
    /\ pc' = "sanitize"
    /\ UNCHANGED <<lines, poseVars, run_candidate, checked, validation_warnings, noted, calls,
                   pose_status, sideVars>>

\* one call of sanitize_client_address; checked keeps the record it was given
Sanitize ==
    /\ pc = "sanitize"
    /\ calls < MaxSanitize
    /\ checked' = run_data
    /\ run_data' = Call("SanitizeClientAddress", <<run_data, lines>>)
    /\ calls' = calls + 1
    /\ UNCHANGED <<pc, lines, poseVars, run_candidate, validation_warnings, noted,
                   pose_status, sideVars>>

NextAddress == ExtractClient \/ Sanitize

SpecAddress == InitAddress /\ [][NextAddress]_vars

AddressKeys == {"client_cp", "client_ville", "client_adresse1", "client_adresse2", "client_adresse"}

\* the index of the anchor line and of the first stop marker after it (0: none)
AnchorIndex == Call("FindLineIndex", <<lines, "code client">>)

StopIndex ==
    LET stops == { j \in (AnchorIndex + 1)..Len(lines) :
                     Call("Search", <<CLIENT_STOP_RE, Call("Lower", <<Call("CleanLine", <<lines[j]>>)>>), TRUE>>) }
    IN  IF AnchorIndex = 0 \/ stops = {} THEN 0
        ELSE CHOOSE j \in stops : \A o \in stops : j <= o

\* line j of the document is where the address value v comes from: v is the
\* line, or v is the postal code or the city of the line
LineGives(j, v) ==
    LET line == Call("CleanLine", <<lines[j]>>)
        m == Call("FirstMatch", <<CP_VILLE_RE, line, FALSE>>)
    IN  /\ v # ""
        /\ \/ v = line
           \/ m # <<>> /\ (v = Call("GroupOf", <<m, line, 2, 2>>) \/ v = Call("Strip", <<Call("GroupOf", <<m, line, 4, 4>>)>>))

\* C21: no line at or after the first stop marker that follows the anchor
\* contributes to client_adresse1, client_adresse2, client_cp or client_ville
C21_NothingPastStopMarker ==
    (pc = "sanitize" /\ AnchorIndex > 0 /\ StopIndex > 0)
        => \A k \in {"client_adresse1", "client_adresse2", "client_cp", "client_ville"} :
              \A j \in StopIndex..Len(lines) :
                  Call("LineGives", <<j, run_data[k]>>)
                      => \E i \in (AnchorIndex + 1)..(StopIndex - 1) : Call("LineGives", <<i, run_data[k]>>)

\* C22: once a line is split into client_cp and client_ville it is neither
\* client_adresse1 nor client_adresse2, after the extractor and after the sanitizer
C22_SplitLineLeavesAddress ==
    (pc = "sanitize" /\ AnchorIndex > 0 /\ run_data.client_cp # "" /\ run_data.client_ville # "")
        => \A j \in 1..Len(lines) :
              (Call("LineGives", <<j, run_data.client_cp>>) /\ Call("LineGives", <<j, run_data.client_ville>>))
                  => /\ run_data.client_adresse1 # Call("CleanLine", <<lines[j]>>)
                     /\ run_data.client_adresse2 # Call("CleanLine", <<lines[j]>>)

\* C30: sanitize_client_address applied to its own output changes none of
\* client_cp, client_ville, client_adresse1, client_adresse2, client_adresse
C30_SanitizeIdempotent ==
    (pc = "sanitize" /\ calls >= 2) => \A k \in AddressKeys : run_data[k] = checked[k]

\* a second call on a record the first call had to change
C30_Witness ==
    /\ pc = "sanitize"
    /\ calls = 2
    /\ run_data.client_adresse # ""
    /\ run_data.client_cp # ""
    /\ lines \in SanitizeLines

-----------------------------------------------------------------------------
(* DevisParser.parse on short documents: what the anchor-based extractors  *)
(* return when an anchor, or every line, is missing.                       *)

MaxParseLines == 2

ParseVocabulary ==
    { "Client Final",
      "Code client : 1234",
      "12 rue des Lilas",
      "75001 PARIS",
      "Tél : 06 01 02 03 04",
      "Contact commercial : BUCHE Kevin",
      "DEVIS N° SRX2511AFF037501" }

ParseDocs == UNION { [1..n -> ParseVocabulary] : n \in 0..MaxParseLines }

InitParse ==
    /\ pc = "parse"
    /\ lines \in ParseDocs
    /\ PoseIdle
    /\ run_data = EmptyRecord
    /\ RunIdle
    /\ SideIdle

SpecParse == InitParse /\ [][Parse]_vars

ClientKeys ==
    {"client_nom", "client_adresse1", "client_adresse2", "client_cp", "client_ville",
     "client_tel", "client_email", "client_contact"}

CommercialKeys == {"commercial_nom", "commercial_tel", "commercial_email"}

\* the text pass made the record: the OCR fallback replaced no block
FromTextPass == Call("Contains", <<run_data.parse_warning, "DEBUG source=TEXT ">>)

\* C23: on every line sequence the extractors return a record; the fields of
\* a block whose anchor is missing are empty strings, and a record without
\* a client name carries the warning for the missing client
C23_MissingAnchorsGiveEmptyFields ==
    pc = "validate"
        => /\ (Call("FindLineIndex", <<lines, "code client">>) = 0 /\ FromTextPass)
                 => \A k \in ClientKeys : run_data[k] = ""
           /\ (Call("FindLineIndex", <<lines, "contact commercial">>) = 0 /\ FromTextPass)
                 => \A k \in CommercialKeys : run_data[k] = ""
           /\ run_data.client_nom = ""
                 => Call("Contains", <<run_data.parse_warning, "Client introuvable (ancre 'Code client :').">>)
           /\ run_data.devis_num = "" => Call("Contains", <<run_data.parse_warning, "Devis SRX introuvable.">>)

\* the empty document has been parsed
C23_Witness ==
    /\ pc = "validate"
    /\ lines = <<>>
    /\ run_data.client_nom = ""
    /\ run_data.commercial_nom = ""
    /\ Call("Contains", <<run_data.parse_warning, "Client introuvable (ancre 'Code client :').">>)

\* a document without the client anchor has been parsed
C23_WitnessNoAnchor ==
    /\ pc = "validate"
    /\ lines = <<"Client Final", "12 rue des Lilas">>
    /\ run_data.client_nom = ""

-----------------------------------------------------------------------------
(* One DevisParser instance parsing one file after the other: parse keeps  *)
(* the lines of each path in self._debug_cache (devis_parser.py 291-295).  *)

CachePaths == {"a.pdf", "b.pdf"}

\* what a file can hold when it is parsed
CacheDocs ==
    { <<>>,
      <<"Client Final", "Code client : 1234">>,
      <<"Code client : 1234", "75001 PARIS">>,
      <<"Contact commercial : BUCHE Kevin">>,
      <<"DEVIS N° SRX2511AFF037501", "Réf affaire : Dupont">> }

MaxParses == 3

\* the OCR engine is not installed: _run_ocr_fallback returns no text
OcrUnavailable(ls) ==
    CHOOSE o \in Call("OcrOutcomes", <<ls>>) : o.texts = <<>>

\* parse(path) as a caller of an instance that reuses what it kept for the path
ParseReusingCache(path, ls, cache) ==
    IF path \in DOMAIN cache
    THEN Call("ParseDevis", <<cache[path], Call("OcrUnavailable", <<cache[path]>>), Debug>>)
    ELSE Call("ParseDevis", <<ls, Call("OcrUnavailable", <<ls>>), Debug>>)

\* parse(path) on an instance whose _debug_cache is cache, the file holding ls
ParseWithCache(path, ls, cache) == Call("ParseDevis", <<ls, Call("OcrUnavailable", <<ls>>), Debug>>)

InitCache ==
    /\ pc = "instance"
    /\ lines = <<>>
    /\ PoseIdle
    /\ run_data = EmptyRecord
    /\ RunIdle
    /\ SideIdle

ParsePath ==
    /\ pc = "instance"
    /\ calls < MaxParses
    /\ \E path \in CachePaths, ls \in CacheDocs :
          /\ lines' = ls
          /\ run_data' = Call("ParseWithCache", <<path, ls, debug_cache>>)
          /\ debug_cache' = [q \in DOMAIN debug_cache \cup {path} |->
                                IF q = path THEN ls ELSE debug_cache[q]]
    /\ calls' = calls + 1
    /\ UNCHANGED <<pc, poseVars, run_candidate, checked, validation_warnings, noted,
                   pose_status, verdict, fill_error, row>>

SpecCache == InitCache /\ [][ParsePath]_vars

\* C24: whatever the instance parsed before, the record of a document is the
\* record a new instance returns for it
C24_RecordDependsOnDocumentOnly ==
    (pc = "instance" /\ calls > 0) => run_data = Call("ParseWithCache", <<"new.pdf", lines, NoCache>>)

\* a path parsed again after its file changed, with another path in between
C24_Witness ==
    /\ pc = "instance"
    /\ calls = 3
    /\ DOMAIN debug_cache = CachePaths
    /\ lines = <<"Client Final", "Code client : 1234">>
    /\ run_data.client_nom = "Client Final"

-----------------------------------------------------------------------------
(* The OCR fallback of DevisParser.parse (devis_parser.py 117-136)         *)

\* the client block and the sales-contact block of the text pass
TextClient == Call("ClientRecord", <<Call("FindClientDetails", <<lines>>)>>)

TextCommercial == Call("FindCommercialDetails", <<lines>>)

\* C25: the OCR fallback only fills gaps: a field of the client block or of
\* the sales-contact block that the text pass found, non-empty and valid,
\* keeps its value in the record
C25_OcrOnlyFillsGaps ==
    pc = "validate"
        => /\ \A k \in ClientKeys \ {"client_nom"} :
                 TextClient[k] # "" => run_data[k] = TextClient[k]
           /\ ~Call("IsInvalidClientName", <<TextClient.client_nom>>)
                 => run_data.client_nom = TextClient.client_nom
           /\ TextCommercial.tel # "" => run_data.commercial_tel = TextCommercial.tel
           /\ TextCommercial.email # "" => run_data.commercial_email = TextCommercial.email
           /\ ~Call("IsInvalidCommercialName", <<TextCommercial.nom>>)
                 => run_data.commercial_nom = TextCommercial.nom

-----------------------------------------------------------------------------
(* The two checks that reject a record: validate_bdc_data (validators.py)  *)
(* and BdcFiller._validate_output_fields after fill (bdc_filler.py).       *)

FatalClients ==
    {"", "  ", "Client Final", " Dupont ", "RIAUX Construction", "Maison Bazouges", "x35560"}

FatalReferences == {"", "2511", "SRX2511", " srx2401 "}

FatalAmounts == {"", " ", "4 894,08"}

FatalNumbers == {"", "037501"}

\* the records handed to the checks
FatalRecords ==
    { [EmptyRecord EXCEPT !.client_nom = c, !.devis_annee_mois = r,
                          !.fourniture_ht = f, !.devis_num = n] :
        c \in FatalClients, r \in FatalReferences, f \in FatalAmounts, n \in FatalNumbers }

InitFatal ==
    /\ pc = "record"
    /\ lines = <<>>
    /\ PoseIdle
    /\ run_data \in FatalRecords
    /\ RunIdle
    /\ SideIdle

\* validate_bdc_data(data)
ValidateBdc ==
    /\ pc = "record"
    /\ verdict' = Call("ValidateBdcData", <<run_data>>)
    /\ pc' = "validated"
    /\ UNCHANGED <<lines, poseVars, runVars, fill_error, debug_cache, row>>

\* BdcFiller.fill(template, data, output) up to its _validate_output_fields
Fill ==
    /\ pc = "record"
    /\ fill_error' = Call("ValidateOutputFields", <<run_data>>)
    /\ pc' = "filled"
    /\ UNCHANGED <<lines, poseVars, runVars, verdict, debug_cache, row>>

NextFatal == ValidateBdc \/ Fill

SpecFatal == InitFatal /\ [][NextFatal]_vars

\* the four conditions of validate_bdc_data on a record, in the order of the
\* claim, each with the message of its failure
ClientPresent(data) == Call("Strip", <<data.client_nom>>) # ""

ClientNotBanned(data) ==
    \A t \in {"riaux", "vaugarny", "bazouges", "35560"} :
        ~Call("Contains", <<Call("Lower", <<Call("Strip", <<data.client_nom>>)>>), t>>)

ReferenceHasSrx(data) == Call("Contains", <<Call("Lower", <<Call("Strip", <<data.devis_annee_mois>>)>>), "srx">>)

AmountPresent(data) == Call("Strip", <<data.fourniture_ht>>) # ""

\* C26: validate_bdc_data accepts with an empty message exactly when the
\* client name is non-empty and holds no banned token, the reference holds
\* SRX and the supply amount is non-empty; otherwise it refuses with the
\* message of the first of these checks that fails, in that order
C26_FirstFailingCheckNamed ==
    pc = "validated" =>
        /\ verdict.ok <=> /\ Call("ClientPresent", <<run_data>>)
                          /\ Call("ClientNotBanned", <<run_data>>)
                          /\ Call("ReferenceHasSrx", <<run_data>>)
                          /\ Call("AmountPresent", <<run_data>>)
        /\ verdict.message =
             IF ~Call("ClientPresent", <<run_data>>) THEN "Client manquant dans le devis."
             ELSE IF ~Call("ClientNotBanned", <<run_data>>)
             THEN "Client invalide détecté: " \o Call("Strip", <<run_data.client_nom>>) \o "."
             ELSE IF ~Call("ReferenceHasSrx", <<run_data>>) THEN "Référence devis invalide (SRX manquant)."
             ELSE IF ~Call("AmountPresent", <<run_data>>) THEN "Montant fourniture HT manquant."
             ELSE ""

\* a record failing the second, third and fourth checks at once is refused
\* for its client
C26_Witness ==
    /\ pc = "validated"
    /\ run_data.client_nom = "Maison Bazouges"
    /\ run_data.devis_annee_mois = "2511"
    /\ run_data.fourniture_ht = ""
    /\ verdict = [ok |-> FALSE, message |-> "Client invalide détecté: Maison Bazouges."]

\* a record passing the four checks
C26_WitnessAccepted ==
    /\ pc = "validated"
    /\ run_data.client_nom = " Dupont "
    /\ run_data.devis_annee_mois = " srx2401 "
    /\ verdict = [ok |-> TRUE, message |-> ""]

\* C3: a record is refused exactly when its client name is empty or its
\* supply amount is absent
C3_FatalOnlyForClientOrAmount ==
    /\ pc = "validated" =>
         (~verdict.ok <=> (~Call("ClientPresent", <<run_data>>) \/ ~Call("AmountPresent", <<run_data>>)))
    /\ pc = "filled" => fill_error = ""

\* a record with a client and a supply amount whose reference was not decoded
C3_Counterexample ==
    ~ /\ pc \in {"validated", "filled"}
      /\ run_data.client_nom = "Client Final"
      /\ run_data.fourniture_ht = "4 894,08"
      /\ run_data.devis_annee_mois = ""
      /\ (~verdict.ok \/ fill_error # "")

-----------------------------------------------------------------------------
(* The telephone numbers of the sales contact:                             *)
(* RuleBasedParser._extract_commercial_block (rule_based_parser.py 190-224) *)
(* and DevisParser._find_commercial_details_from_lines (devis_parser.py).  *)

\* PHONE_RE.findall(s) from position i on: the successive matches
FindAllPhones(s, i) ==
    LET m == FirstMatchFrom(PHONE_RE, s, FALSE, i, Len(s) + 1)
    IN  IF i > Len(s) \/ m = <<>> THEN <<>>
        ELSE <<Call("Group0", <<m, s>>)>> \o Call("FindAllPhones", <<s, m[Len(m)]>>)

\* the loop over phones of one line: 06/07 numbers go to commercial_tel while
\* it is empty, every other number to commercial_tel2 while it is empty
AssignPhones(phones, st) ==
    IF phones = <<>> THEN st
    ELSE LET phone == Head(phones)
         IN  IF (Call("StartsWith", <<phone, "06">>) \/ Call("StartsWith", <<phone, "07">>)) /\ st.tel = ""
             THEN Call("AssignPhones", <<Tail(phones), [st EXCEPT !.tel = phone]>>)
             ELSE IF st.tel2 = ""
             THEN Call("AssignPhones", <<Tail(phones), [st EXCEPT !.tel2 = phone]>>)
             ELSE Call("AssignPhones", <<Tail(phones), st>>)

\* the loop over the lines after the anchor
CommercialScan(ls, st) ==
    IF ls = <<>> THEN st
    ELSE LET next_line == Head(ls)
         IN  IF st.nom = "" /\ ~Call("Search", <<CP_VILLE_RE, next_line, FALSE>>)
             THEN Call("CommercialScan", <<Tail(ls), [st EXCEPT !.nom = next_line]>>)
             ELSE LET m     == Call("FirstMatch", <<EMAIL_RE, next_line, TRUE>>)
                      email == IF st.email = "" /\ m # <<>> THEN Call("Group0", <<m, next_line>>)
                               ELSE st.email
                      st2   == Call("AssignPhones", <<Call("FindAllPhones", <<next_line, 1>>),
                                            [st EXCEPT !.email = email]>>)
                  IN  IF st2.nom # "" /\ st2.tel # "" /\ st2.email # "" THEN st2
                      ELSE Call("CommercialScan", <<Tail(ls), st2>>)

\* RuleBasedParser._extract_commercial_block: the four fields it updates
ExtractCommercialBlock(ls) ==
    LET anchors == {i \in 1..Len(ls) : Call("Contains", <<Call("Lower", <<ls[i]>>), "contact commercial">>)}
        none    == [nom |-> "", tel |-> "", tel2 |-> "", email |-> ""]
    IN  IF anchors = {} THEN none
        ELSE LET anchor_idx == CHOOSE i \in anchors : \A j \in anchors : i <= j
             IN  Call("CommercialScan", <<SubSeq(ls, anchor_idx + 1, Len(ls)), none>>)

ContactAnchors == {"Contact commercial", "Contact commercial : BUCHE Kevin"}

ContactVocabulary ==
    { "BUCHE Kevin", "Tél : 02 99 97 45 40", "06 12 34 56 78",
      "07 11 22 33 44 - 02 99 00 00 00", "kevin.buche@example.fr", "75001 PARIS" }

MaxContactLines == 3

\* the anchor line and up to MaxContactLines lines after it
ContactDocs ==
    { <<a>> \o t : a \in ContactAnchors,
                   t \in UNION { [1..n -> ContactVocabulary] : n \in 0..MaxContactLines } }

InitContact ==
    /\ pc = "document"
    /\ lines \in ContactDocs
    /\ PoseIdle
    /\ run_data = EmptyRecord
    /\ RunIdle
    /\ SideIdle

\* RuleBasedParser.parse, the sales-contact fields of its record
RuleBasedContact ==
    /\ pc = "document"
    /\ LET c == Call("ExtractCommercialBlock", <<lines>>)
       IN  run_data' = [EmptyRecord EXCEPT !.commercial_nom = c.nom, !.commercial_tel = c.tel,
                                           !.commercial_tel2 = c.tel2,
                                           !.commercial_email = c.email]
    /\ pc' = "rule_based"
    /\ UNCHANGED <<lines, poseVars, run_candidate, checked, validation_warnings, noted,
                   calls, pose_status, sideVars>>

\* DevisParser.parse, the sales-contact fields of its record (it has no
\* commercial_tel2)
AnchorContact ==
    /\ pc = "document"
    /\ LET c == Call("FindCommercialDetails", <<lines>>)
       IN  run_data' = [EmptyRecord EXCEPT !.commercial_nom = c.nom, !.commercial_tel = c.tel,
                                           !.commercial_email = c.email]
    /\ pc' = "anchor_based"
    /\ UNCHANGED <<lines, poseVars, run_candidate, checked, validation_warnings, noted,
                   calls, pose_status, sideVars>>

NextContact == RuleBasedContact \/ AnchorContact

SpecContact == InitContact /\ [][NextContact]_vars

\* the telephone numbers of the lines ls, in line order
PhonesInOrder(ls) ==
    IF ls = <<>> THEN <<>> ELSE Call("FindAllPhones", <<Head(ls), 1>>) \o Call("PhonesInOrder", <<Tail(ls)>>)

\* C27: when the lines after the anchor hold two distinct telephone numbers,
\* commercial_tel is the first of them in line order and commercial_tel2 the
\* first one that differs from it, whatever their prefixes
C27_FirstPhoneIsPrimary ==
    pc \in {"rule_based", "anchor_based"} =>
        LET phones == Call("PhonesInOrder", <<Tail(lines)>>)
            others == {i \in 1..Len(phones) : phones[i] # phones[1]}
        IN  (phones # <<>> /\ others # {}) =>
                /\ run_data.commercial_tel = phones[1]
                /\ run_data.commercial_tel2 =
                       phones[CHOOSE i \in others : \A j \in others : i <= j]

\* a landline before a mobile number: the mobile number becomes the primary
C27_LandlineBeforeMobile ==
    ~ /\ pc = "rule_based"
      /\ lines = <<"Contact commercial", "BUCHE Kevin", "Tél : 02 99 97 45 40", "06 12 34 56 78">>
      /\ run_data.commercial_tel = "06 12 34 56 78"
      /\ run_data.commercial_tel2 = "02 99 97 45 40"

-----------------------------------------------------------------------------
(* The technical fields of DevisParser.parse (devis_parser.py 186-192):    *)
(* _find_modele and _extract_finitions.                                    *)

\* -\s*Mod[eè]le\s*:\s*(.+) with re.IGNORECASE
MODELE_RE ==
    << Call("Lit", <<"-">>) \o <<Spc(0, Inf)>> \o Call("Lit", <<"mod">>) \o <<Cls({}, "eè", 1, 1)>> \o Call("Lit", <<"le">>)
       \o <<Spc(0, Inf)>> \o Call("Lit", <<":">>) \o <<Spc(0, Inf), AnyCh(1, Inf)>> >>

\* DevisParser._find_modele
FindModele(ls) ==
    IF ls = <<>> THEN ""
    ELSE LET m == Call("FirstMatch", <<MODELE_RE, Head(ls), TRUE>>)
         IN  IF m # <<>> THEN Call("Strip", <<Call("GroupOf", <<m, Head(ls), Len(m) - 1, Len(m) - 1>>)>>)
             ELSE Call("FindModele", <<Tail(ls)>>)

\* re.search(r"-\s*([^:]+)\s*:\s*(.+)", line): the label and the value, both
\* stripped, or <<>>.  The expression matches at a dash whose first colon to
\* the right has a character between the two and a character after it; the
\* label group runs up to that colon and the value group to the end.
FinitionMatch(line) ==
    LET colon(i) == FirstIdx(LAMBDA j : Ch(line, j) = ":", i + 1, Len(line))
        dashes   == {i \in 1..Len(line) : /\ Ch(line, i) = "-"
                                          /\ colon(i) >= i + 2
                                          /\ colon(i) < Len(line)}
    IN  IF dashes = {} THEN <<>>
        ELSE LET i == CHOOSE d \in dashes : \A e \in dashes : d <= e
             IN  << Call("Lower", <<Call("Strip", <<SubSeq(line, i + 1, colon(i) - 1)>>)>>),
                    Call("Strip", <<SubSeq(line, colon(i) + 1, Len(line))>>) >>

NoFinitions == [marche |-> "", structure |-> "", main_courante |-> "",
                contremarche |-> "", rampe |-> ""]

FinitionLabels == <<"marche", "structure", "main courante", "contremarche", "rampe">>

FinitionKey(label) ==
    IF Call("StartsWith", <<label, "marche">>) THEN "marche"
    ELSE IF Call("StartsWith", <<label, "structure">>) THEN "structure"
    ELSE IF Call("StartsWith", <<label, "main courante">>) THEN "main_courante"
    ELSE IF Call("StartsWith", <<label, "contremarche">>) THEN "contremarche"
    ELSE IF Call("StartsWith", <<label, "rampe">>) THEN "rampe"
    ELSE ""

\* the loop of _extract_finitions; some tells that the dictionary has a key
FinitionScan(ls, in_finition, some, finitions) ==
    IF ls = <<>> THEN finitions
    ELSE LET line == Head(ls)
             m    == Call("FinitionMatch", <<line>>)
         IN  IF Call("Contains", <<Call("Upper", <<line>>), "FINITION">>)
             THEN Call("FinitionScan", <<Tail(ls), TRUE, some, finitions>>)
             ELSE IF in_finition /\ ~Call("StartsWith", <<Call("Strip", <<line>>), "-">>)
             THEN IF some THEN finitions
                  ELSE Call("FinitionScan", <<Tail(ls), in_finition, some, finitions>>)
             ELSE IF ~in_finition \/ m = <<>> \/ Call("FinitionKey", <<m[1]>>) = ""
             THEN Call("FinitionScan", <<Tail(ls), in_finition, some, finitions>>)
             ELSE Call("FinitionScan", <<Tail(ls), in_finition, TRUE,
                               [finitions EXCEPT ![Call("FinitionKey", <<m[1]>>)] = m[2]]>>)

\* DevisParser._extract_finitions, a missing key read as "" (finitions.get)
ExtractFinitions(ls) == Call("FinitionScan", <<ls, FALSE, FALSE, NoFinitions>>)

TechnicalVocabulary ==
    { "FINITION", "- Marches : Vernis", "- Marches : Huilé", "- Structure : Laqué blanc",
      "- Modèle : Quart tournant", "- Modèle : Droit", "Escalier chêne" }

MaxTechnicalLines == 3

TechnicalDocs == UNION { [1..n -> TechnicalVocabulary] : n \in 0..MaxTechnicalLines }

InitTechnical ==
    /\ pc = "document"
    /\ lines \in TechnicalDocs
    /\ PoseIdle
    /\ run_data = EmptyRecord
    /\ RunIdle
    /\ SideIdle

\* the technical fields parse puts in its record
Technical ==
    /\ pc = "document"
    /\ LET finitions == Call("ExtractFinitions", <<lines>>)
       IN  run_data' = [esc_gamme |-> Call("FindModele", <<lines>>),
                        esc_finition_marches |-> finitions.marche,
                        esc_finition_structure |-> finitions.structure,
                        esc_finition_mains_courante |-> finitions.main_courante,
                        esc_finition_contremarche |-> finitions.contremarche,
                        esc_finition_rampe |-> finitions.rampe]
    /\ pc' = "technical"
    /\ UNCHANGED <<lines, poseVars, run_candidate, checked, validation_warnings, noted,
                   calls, pose_status, sideVars>>

SpecTechnical == InitTechnical /\ [][Technical]_vars

\* the value of the first line of ls whose label starts with label, "" if none
FirstLabelled(ls, label) ==
    LET carrying == {i \in 1..Len(ls) : /\ Call("FinitionMatch", <<ls[i]>>) # <<>>
                                        /\ Call("StartsWith", <<Call("FinitionMatch", <<ls[i]>>)[1], label>>)}
    IN  IF carrying = {} THEN ""
        ELSE Call("FinitionMatch", <<ls[CHOOSE i \in carrying : \A j \in carrying : i <= j]>>)[2]

\* C28: a technical field that is set holds the value of the first line, in
\* line order, that carries its label
C28_FirstLabelledLineWins ==
    pc = "technical" =>
        /\ run_data.esc_gamme = Call("FirstLabelled", <<lines, "mod">>)
        /\ run_data.esc_finition_marches \in {"", Call("FirstLabelled", <<lines, "marche">>)}
        /\ run_data.esc_finition_structure \in {"", Call("FirstLabelled", <<lines, "structure">>)}

\* two lines labelled Marches in the finition section: the second one stays
C28_LaterLineWins ==
    ~ /\ pc = "technical"
      /\ lines = <<"FINITION", "- Marches : Vernis", "- Marches : Huilé">>
      /\ run_data.esc_finition_marches = "Huilé"

-----------------------------------------------------------------------------
(* The devis table of MainWindow (main.py): add_row, handle_item_changed,  *)
(* clear_list and generate_bdcs.  row maps the path of each table row to   *)
(* its cells and its DevisItem.                                            *)

TablePaths == {"SRX2511AFF037501.pdf", "SRX2401AFF000012.pdf"}

\* the pose_status _extract_data returns
PoseStatuses == {"rule", "gemini"}

MaxCellChanges == 4

\* MainWindow._origin_text
OriginText(status) ==
    IF status = "gemini" THEN "Gemini" ELSE IF status = "auto" THEN "Auto" ELSE "À vérifier"

\* handle_item_changed for the Pose cell (column 1) of the row r
PoseCellChanged(r) ==
    IF ~r.force_cell THEN r
    ELSE [r EXCEPT !.pose_sold = r.pose_cell, !.pose_source = "forced",
                   !.data_pose_sold = r.pose_cell, !.origin = "Forcé"]

\* handle_item_changed for the Force cell without the reset of the unchecked
\* branch
ForceCellChangedNoReset(r, emits) ==
    LET editable == [r EXCEPT !.pose_enabled = r.force_cell]
        flagged  == IF emits THEN Call("PoseCellChanged", <<editable>>) ELSE editable
    IN  [flagged EXCEPT !.origin = IF r.force_cell THEN "Forcé"
                                   ELSE Call("OriginText", <<r.auto_pose_status>>)]

\* handle_item_changed for the Force cell (column 2) of the row r.  Qt may
\* emit itemChanged for the Pose cell when _set_pose_editable sets its flags
\* (emits) and emits it when setCheckState changes its state; the handler
\* runs inside the call.
ForceCellChanged(r, emits) ==
    LET editable == [r EXCEPT !.pose_enabled = r.force_cell]
        flagged  == IF emits THEN Call("PoseCellChanged", <<editable>>) ELSE editable
    IN  IF r.force_cell THEN [flagged EXCEPT !.origin = "Forcé"]
        ELSE LET reset == Call("PoseCellChanged", <<[flagged EXCEPT !.pose_cell = r.auto_pose_sold]>>)
             IN  [reset EXCEPT !.pose_sold = r.auto_pose_sold,
                               !.pose_source = r.auto_pose_status,
                               !.data_pose_sold = r.auto_pose_sold,
                               !.origin = Call("OriginText", <<r.auto_pose_status>>)]

InitTable ==
    /\ pc = "table"
    /\ lines = <<>>
    /\ PoseIdle
    /\ run_data = EmptyRecord
    /\ RunIdle
    /\ SideIdle

\* handle_files_dropped for one SRX file not yet in the table: add_row and
\* the DevisItem, from what _extract_data returned
AddRow ==
    /\ pc = "table"
    /\ \E path \in TablePaths \ DOMAIN row, sold \in BOOLEAN, status \in PoseStatuses :
          row' = [q \in DOMAIN row \cup {path} |->
                    IF q = path
                    THEN [pose_cell |-> sold, pose_enabled |-> FALSE, force_cell |-> FALSE,
                          origin |-> Call("OriginText", <<status>>), status |-> "En attente",
                          pose_sold |-> sold, pose_source |-> status,
                          data_pose_sold |-> sold, auto_pose_sold |-> sold,
                          auto_pose_status |-> status, changes |-> 0]
                    ELSE row[q]]
    /\ UNCHANGED <<pc, lines, poseVars, runVars, verdict, fill_error, debug_cache>>

\* the user checks or unchecks the Force cell of a row
ToggleForce ==
    /\ pc = "table"
    /\ \E path \in DOMAIN row, emits \in BOOLEAN :
          /\ row[path].changes < MaxCellChanges
          /\ row' = [row EXCEPT ![path] =
                        Call("ForceCellChanged", <<[row[path] EXCEPT !.force_cell = ~row[path].force_cell,
                                                           !.changes = @ + 1], emits>>)]
    /\ UNCHANGED <<pc, lines, poseVars, runVars, verdict, fill_error, debug_cache>>

\* the user checks or unchecks the Pose cell of a row, which Qt allows only
\* while the cell has the flag ItemIsEnabled
TogglePose ==
    /\ pc = "table"
    /\ \E path \in DOMAIN row :
          /\ row[path].pose_enabled
          /\ row[path].changes < MaxCellChanges
          /\ row' = [row EXCEPT ![path] =
                        Call("PoseCellChanged", <<[row[path] EXCEPT !.pose_cell = ~row[path].pose_cell,
                                                          !.changes = @ + 1]>>)]
    /\ UNCHANGED <<pc, lines, poseVars, runVars, verdict, fill_error, debug_cache>>

\* clear_list
ClearList ==
    /\ pc = "table"
    /\ row # NoRow
    /\ row' = NoRow
    /\ UNCHANGED <<pc, lines, poseVars, runVars, verdict, fill_error, debug_cache>>

\* generate_bdcs with the template present: every row takes pose_sold from its
\* Pose cell, and its status cell tells whether fill raised
GenerateBdcs ==
    /\ pc = "table"
    /\ row # NoRow
    /\ \E raised \in [DOMAIN row -> BOOLEAN] :
          row' = [q \in DOMAIN row |->
                    [row[q] EXCEPT !.pose_sold = row[q].pose_cell,
                                   !.data_pose_sold = row[q].pose_cell,
                                   !.status = IF raised[q] THEN "Erreur" ELSE "OK"]]
    /\ UNCHANGED <<pc, lines, poseVars, runVars, verdict, fill_error, debug_cache>>

NextTable == AddRow \/ ToggleForce \/ TogglePose \/ ClearList \/ GenerateBdcs

SpecTable == InitTable /\ [][NextTable]_vars

\* C29: a row whose Force cell is unchecked has the detected value in
\* pose_sold and in data["pose_sold"] and the detected status as its source;
\* a row differs from the detected value, or has the source "forced", only
\* while its Force cell is checked
C29_UnforcedRowIsAutomatic ==
    \A path \in DOMAIN row :
        ~row[path].force_cell =>
            /\ row[path].pose_sold = row[path].auto_pose_sold
            /\ row[path].data_pose_sold = row[path].auto_pose_sold
            /\ row[path].pose_source = row[path].auto_pose_status
            /\ row[path].pose_source # "forced"

\* Force checked, Pose changed, Force unchecked: the row is automatic again
C29_Witness ==
    /\ DOMAIN row = {"SRX2511AFF037501.pdf"}
    /\ row["SRX2511AFF037501.pdf"].changes = 3
    /\ ~row["SRX2511AFF037501.pdf"].force_cell
    /\ row["SRX2511AFF037501.pdf"].auto_pose_sold
    /\ row["SRX2511AFF037501.pdf"].pose_sold
    /\ row["SRX2511AFF037501.pdf"].status = "OK"

-----------------------------------------------------------------------------
(* Claims about one run of MainWindow._extract_data, checked under Spec    *)

\* a contamination marker: a pattern of address_sanitizer.POLLUTION_PATTERNS
\* or a token of validator.RIAUX_TOKENS
Contaminated(value) == Call("ContainsPollution", <<value>>) \/ Call("ContainsRiaux", <<value>>)

\* C1: in the record _extract_data returns no counterparty field contains a
\* contamination marker, whatever the document and the producer's output
C1_ReturnedRecordIsClean ==
    pc = "returned" => \A k \in ClientFields : ~Call("Contaminated", <<run_data[k]>>)

\* the keys of the record that hold text
TextKeys == {StrKeys[i] : i \in 1..Len(StrKeys)}

\* C2: the candidate merged from the producer's output differs from the
\* anchor-based record only in fields that were empty in that record
C2_MergeFillsOnlyEmptyFields ==
    pc \in {"retry", "accept"} =>
        \A k \in TextKeys : run_data[k] # "" => run_candidate[k] = run_data[k]

\* C4: in the record parse returns and in the record _extract_data returns,
\* devis_annee_mois, devis_type and devis_num are all empty or all set
C4_ReferenceAllOrNothing ==
    pc \in {"validate", "returned"} =>
        \/ run_data.devis_annee_mois = "" /\ run_data.devis_type = "" /\ run_data.devis_num = ""
        \/ run_data.devis_annee_mois # "" /\ run_data.devis_type # "" /\ run_data.devis_num # ""

\* the fields validate_and_fix and sanitize_client_address clear
ClearedFields ==
    {"client_nom", "client_adresse1", "client_adresse2", "client_cp", "client_ville"}

\* the warning validate_and_fix gives for the field k
PollutionWarning(k) ==
    (IF k = "client_nom" THEN "Client" ELSE k) \o " contient une pollution RIAUX"

\* C9: after a call of validate_and_fix, every counterparty field that held a
\* contamination marker before the call and is empty after it has a warning
\* naming it in the returned list
C9_ClearedFieldHasWarning ==
    (pc = "fallback" \/ (pc = "normalize" /\ pose_status = "gemini")) =>
        \A k \in ClearedFields :
            (Call("Contaminated", <<checked[k]>>) /\ run_data[k] = "") =>
                \E i \in 1..Len(validation_warnings) : validation_warnings[i] = Call("PollutionWarning", <<k>>)

\* C10: every warning the anchor-based pass and the validation passes put
\* into parse_warning is contained in the parse_warning of the returned record
C10_WarningsKept ==
    pc = "returned" =>
        \A i \in 1..Len(noted) : Call("Contains", <<run_data.parse_warning, noted[i]>>)

\* C11: the producer is called at most twice for one document, one call at a
\* time, and the second call is the retry made for a contaminated candidate
C11_AtMostTwoCalls ==
    [][ /\ calls' <= 2
        /\ calls' > calls => calls' = calls + 1
        /\ (calls = 1 /\ calls' = 2) => (pc = "retry" /\ Call("HasRiauxPollution", <<run_candidate>>)) ]_vars

\* C12: a producer's failure leaves the anchor-based values: a parse whose
\* OCR call failed returns the client and sales-contact fields of the text
\* pass, and a failed call of the model leaves the record as it was
C12_FailureKeepsAnchorRecord ==
    [][ /\ (pc = "parse" /\ Call("Contains", <<run_data'.parse_warning, "WARNING: ">>))
             => /\ \A k \in ClientKeys : run_data'[k] = TextClient[k]
                /\ run_data'.commercial_nom = TextCommercial.nom
                /\ run_data'.commercial_tel = TextCommercial.tel
                /\ run_data'.commercial_email = TextCommercial.email
        /\ (calls' > calls /\ pc' = "normalize") => run_data' = run_data ]_vars

\* the fields the claim calls critical: the client name, the sales-contact
\* name, the reference (decoded or of the affair) and the two costs
ClaimedCriticalKeys ==
    {"client_nom", "commercial_nom", "devis_annee_mois", "devis_type", "devis_num",
     "ref_affaire", "fourniture_ht", "prestations_ht"}

\* C13: the model is called only for a record in which one of these fields
\* is empty after the anchor-based pass and its validation
C13_CalledOnlyForCriticalGap ==
    [][ (pc = "fallback" /\ calls' > calls)
            => \E k \in ClaimedCriticalKeys : run_data[k] = "" ]_vars

-----------------------------------------------------------------------------
(* The counterparty name and block around the "Code client" anchor:        *)
(* RuleBasedParser._extract_client_block (rule_based_parser.py 122-188)    *)
(* and DevisParser._find_client_details_from_lines.                        *)

RIAUX_BLACKLIST ==
    << "VAUGARNY", "35560", "BAZOUGES", "BAZOUGES LA PEROUSE", "GROUPE RIAUX", "RIAUX",
       "1623Z", "RCS RENNES", "02 99 97 45 40" >>

\* RuleBasedParser._is_blacklisted
IsBlacklisted(value) ==
    \E t \in 1..Len(RIAUX_BLACKLIST) : Call("Contains", <<Call("Upper", <<value>>), RIAUX_BLACKLIST[t]>>)

\* (devis|r.?alis[ée]? par|date du devis|r.?f affaire), searched with
\* re.IGNORECASE in the lines above the anchor
ABOVE_SKIP_RE ==
    << Call("Lit", <<"devis">>),
       Call("Lit", <<"r">>) \o <<AnyCh(0, 1)>> \o Call("Lit", <<"alis">>) \o <<Cls({}, "ée", 0, 1)>> \o Call("Lit", <<" par">>),
       Call("Lit", <<"date du devis">>),
       Call("Lit", <<"r">>) \o <<AnyCh(0, 1)>> \o Call("Lit", <<"f affaire">>) >>

\* (t[ée]l|fax|contact commercial|e[- ]?mail|mail|validit), matched with
\* re.IGNORECASE at the start of the lines after the anchor
BLOCK_END_RE ==
    << Call("Lit", <<"t">>) \o <<Cls({}, "ée", 1, 1)>> \o Call("Lit", <<"l">>), Call("Lit", <<"fax">>), Call("Lit", <<"contact commercial">>),
       Call("Lit", <<"e">>) \o <<Cls({}, "- ", 0, 1)>> \o Call("Lit", <<"mail">>), Call("Lit", <<"mail">>), Call("Lit", <<"validit">>) >>

EndsBlock(line) == FirstAlternative(BLOCK_END_RE, line, TRUE, 1, 1) # <<>>

\* RuleBasedParser._after_colon
RuleAfterColon(line) == IF Call("Contains", <<line, ":">>) THEN Call("Strip", <<Call("AfterColon", <<line>>)>>) ELSE ""

\* the backward loop of _extract_client_block, from line rev up
RuleNameAbove(ls, rev) ==
    IF rev < 1 THEN ""
    ELSE IF Call("IsBlacklisted", <<ls[rev]>>) \/ Call("Search", <<ABOVE_SKIP_RE, ls[rev], TRUE>>) \/ ls[rev] = ""
    THEN Call("RuleNameAbove", <<ls, rev - 1>>)
    ELSE ls[rev]

\* the forward loop of _extract_client_block that runs when the backward
\* loop found no name, from line i on
RuleNameBelow(ls, i) ==
    IF i > Len(ls) \/ Call("EndsBlock", <<ls[i]>>) THEN ""
    ELSE IF Call("IsBlacklisted", <<ls[i]>>) \/ ls[i] = "" THEN Call("RuleNameBelow", <<ls, i + 1>>)
    ELSE ls[i]

\* the loop that collects the address lines and the contact, from line i on
RuleAddressScan(ls, i, client_nom, st) ==
    IF i > Len(ls) \/ Call("EndsBlock", <<ls[i]>>) THEN st
    ELSE IF Call("Contains", <<Call("Lower", <<ls[i]>>), "contact">>)
    THEN Call("RuleAddressScan", <<ls, i + 1, client_nom,
             [st EXCEPT !.contact = IF Call("RuleAfterColon", <<ls[i]>>) # "" THEN Call("RuleAfterColon", <<ls[i]>>) ELSE @]>>)
    ELSE IF ls[i] = client_nom THEN Call("RuleAddressScan", <<ls, i + 1, client_nom, st>>)
    ELSE Call("RuleAddressScan", <<ls, i + 1, client_nom, [st EXCEPT !.adresse_lines = Append(@, ls[i])]>>)

\* the address lines without a postal code and without a blacklisted token
RuleCleanAddress(ls) ==
    IF ls = <<>> THEN <<>>
    ELSE IF Call("Search", <<CP_VILLE_RE, Head(ls), FALSE>>) \/ Call("IsBlacklisted", <<Head(ls)>>) THEN Call("RuleCleanAddress", <<Tail(ls)>>)
    ELSE <<Head(ls)>> \o Call("RuleCleanAddress", <<Tail(ls)>>)

\* the first address line with a postal code: <<cp, ville>>
RuleCpVille(ls) ==
    IF ls = <<>> THEN <<"", "">>
    ELSE LET m == Call("FirstMatch", <<CP_VILLE_RE, Head(ls), FALSE>>)
         IN  IF m # <<>>
             THEN <<Call("GroupOf", <<m, Head(ls), 2, 2>>), Call("Strip", <<Call("GroupOf", <<m, Head(ls), 4, 4>>)>>)>>
             ELSE Call("RuleCpVille", <<Tail(ls)>>)

\* RuleBasedParser._extract_client_block: the block in the shape of
\* DevisParser's; code_index 0 stands for None
ExtractClientBlock(ls) ==
    LET anchor_idx == Call("FindLineIndex", <<ls, "code client">>) IN
    IF anchor_idx = 0
    THEN [nom |-> "", adresse1 |-> "", adresse2 |-> "", cp |-> "", ville |-> "",
          tel |-> "", email |-> "", contact |-> "", code_index |-> 0]
    ELSE LET above      == Call("RuleNameAbove", <<ls, anchor_idx - 1>>)
             client_nom == IF above # "" THEN above ELSE Call("RuleNameBelow", <<ls, anchor_idx + 1>>)
             st         == Call("RuleAddressScan", <<ls, anchor_idx + 1, client_nom,
                                           [contact |-> "", adresse_lines |-> <<>>]>>)
             clean      == Call("RuleCleanAddress", <<st.adresse_lines>>)
             cpv        == Call("RuleCpVille", <<st.adresse_lines>>)
             window     == Call("Slice", <<ls, anchor_idx, anchor_idx + 6>>)
         IN  [nom |-> client_nom,
              adresse1 |-> IF Len(clean) > 0 THEN clean[1] ELSE "",
              adresse2 |-> IF Len(clean) > 1 THEN clean[2] ELSE "",
              cp |-> cpv[1], ville |-> cpv[2],
              tel |-> Call("FindPhone", <<window>>), email |-> Call("FindEmail", <<window>>),
              contact |-> st.contact, code_index |-> anchor_idx]

ClientAnchors == {"Code client", "Code client : 1234"}

AboveVocabulary ==
    {"Client Final", "GROUPE RIAUX", "12 rue des Lilas", "DEVIS N° SRX2511AFF037501"}

BelowVocabulary ==
    {"RIAUX", "Client Final", "123 Rue test", "Contact commercial", "35560 BAZOUGES LA PEROUSE"}

MaxAboveLines == 2

MaxBelowLines == 2

\* up to MaxAboveLines lines, the anchor, up to MaxBelowLines lines; and the
\* line lists of the tests
ClientDocs ==
    { a \o <<c>> \o b :
        a \in UNION { [1..n -> AboveVocabulary] : n \in 0..MaxAboveLines },
        c \in ClientAnchors,
        b \in UNION { [1..n -> BelowVocabulary] : n \in 0..MaxBelowLines } }
    \cup { <<"Code client", "RIAUX", "Client Final", "123 Rue test", "Contact commercial">>,
           <<"Code client : 12345", "CLIENT TEST", "12 rue de Test", "75000 PARIS",
             "Contact commercial : BUCHE Kevin", "RIAUX SAS", "VAUGARNY",
             "35560 BAZOUGES LA PEROUSE">> }

InitClient ==
    /\ pc = "client_lines"
    /\ lines \in ClientDocs
    /\ PoseIdle
    /\ run_data = EmptyRecord
    /\ RunIdle
    /\ SideIdle

\* RuleBasedParser.parse, the counterparty fields of its record
RuleBasedClient ==
    /\ pc = "client_lines"
    /\ run_data' = Call("ClientRecord", <<Call("ExtractClientBlock", <<lines>>)>>)
    /\ pc' = "rule_based"
    /\ UNCHANGED <<lines, poseVars, run_candidate, checked, validation_warnings, noted,
                   calls, pose_status, sideVars>>

\* DevisParser._find_client_details, the counterparty fields parse copies
AnchorClient ==
    /\ pc = "client_lines"
    /\ run_data' = Call("ClientRecord", <<Call("FindClientDetails", <<lines>>)>>)
    /\ pc' = "anchor_based"
    /\ UNCHANGED <<lines, poseVars, run_candidate, checked, validation_warnings, noted,
                   calls, pose_status, sideVars>>

NextClient == RuleBasedClient \/ AnchorClient

SpecClient == InitClient /\ [][NextClient]_vars

\* a noise phrase: the header label of the document, the "issued by" and
\* date-of-quote boilerplate, the anchor phrase itself
NoisePhrase(line) ==
    \E t \in {"devis", "réalisé par", "code client"} : Call("Contains", <<Call("Lower", <<line>>), t>>)

\* a line that may be the counterparty name
ValidNameLine(line) == line # "" /\ ~Call("Contaminated", <<line>>) /\ ~Call("NoisePhrase", <<line>>)

\* the valid lines above the anchor of the document
ValidAbove ==
    {i \in 1..(Call("FindLineIndex", <<lines, "code client">>) - 1) : Call("ValidNameLine", <<lines[i]>>)}

\* the first valid line after the anchor and before the first stop marker,
\* "" when there is none
FirstValidBelow ==
    LET code  == Call("FindLineIndex", <<lines, "code client">>)
        stops == {i \in (code + 1)..Len(lines) : Call("Search", <<CLIENT_STOP_RE, Call("Lower", <<lines[i]>>), TRUE>>)}
        last  == IF stops = {} THEN Len(lines) ELSE (CHOOSE i \in stops : \A j \in stops : i <= j) - 1
        valid == {i \in (code + 1)..last : Call("ValidNameLine", <<lines[i]>>)}
    IN  IF valid = {} THEN "" ELSE lines[CHOOSE i \in valid : \A j \in valid : i <= j]

\* C14: when no valid line stands above the anchor, the counterparty name is
\* the first line after the anchor that is non-empty, not contaminated and
\* not a noise phrase
C14_ForwardNameWhenNoneAbove ==
    (pc \in {"rule_based", "anchor_based"} /\ ValidAbove = {}) =>
        run_data.client_nom = FirstValidBelow

\* C15: when a valid line stands above the anchor, the counterparty name is
\* the nearest of them, whatever follows the anchor
C15_NearestValidAbove ==
    (pc \in {"rule_based", "anchor_based"} /\ ValidAbove # {}) =>
        run_data.client_nom = lines[CHOOSE i \in ValidAbove : \A j \in ValidAbove : j <= i]

\* C16: every value of the block _find_client_details returns is free of
\* contamination markers
C16_ClientBlockClean ==
    pc = "anchor_based" => \A k \in ClientKeys : ~Call("Contaminated", <<run_data[k]>>)

\* the same statements for the record of RuleBasedParser alone
RuleBasedNameAsClaimed ==
    pc = "rule_based" =>
        run_data.client_nom =
            IF ValidAbove = {} THEN FirstValidBelow
            ELSE lines[CHOOSE i \in ValidAbove : \A j \in ValidAbove : j <= i]

-----------------------------------------------------------------------------
(* The amount normalizers: DevisParser._normalize_amount,                  *)
(* validator._clean_amount, data_normalizer._format_amount_fr and          *)
(* extraction_normalizer._format_amount, applied to one text.              *)

\* the groups of three digits of _format_amount, joined with spaces
JoinGroups(integer_part) ==
    IF Len(integer_part) > 3
    THEN Call("JoinGroups", <<SubSeq(integer_part, 1, Len(integer_part) - 3)>>) \o " "
         \o SubSeq(integer_part, Len(integer_part) - 2, Len(integer_part))
    ELSE integer_part

\* _format_amount without .replace(",", "."): Decimal() is given the comma
FormatAmountCommaKept(value) ==
    LET cleaned    == Call("Strip", <<value>>)
        normalized == Call("RemoveCh", <<Call("Replace", <<cleaned, NNBSP, " ">>), " ">>)
        signed     == normalized # "" /\ Head(normalized) \in {"+", "-"}
        body       == IF signed THEN Tail(normalized) ELSE normalized
        points     == Call("CountClass", <<body, Cls({}, ".", 1, 1)>>)
        digits     == Call("CountClass", <<body, Dig(1, 1)>>)
        valid      == digits >= 1 /\ points <= 1 /\ digits + points = Len(body)
        dot        == IF points = 0 THEN Len(body) + 1
                      ELSE CHOOSE i \in 1..Len(body) : Ch(body, i) = "."
        frac       == SubSeq(body, dot + 1, Len(body)) \o "00"
        rem        == SubSeq(frac, 3, Len(frac))
        floor      == 100 * Call("StrToNat", <<SubSeq(body, 1, dot - 1)>>) + Call("StrToNat", <<SubSeq(frac, 1, 2)>>)
        cents      == floor + (IF rem # "" /\ Call("StrToNat", <<Ch(rem, 1)>>) >= 5 THEN 1 ELSE 0)
        sign       == IF signed /\ Head(normalized) = "-" /\ cents > 0 THEN "-" ELSE ""
    IN  IF cleaned = "" \/ ~valid THEN ""
        ELSE sign \o Call("JoinGroups", <<Call("NatToStr", <<cents \div 100>>)>>) \o ","
             \o (IF cents % 100 < 10 THEN "0" ELSE "") \o Call("NatToStr", <<cents % 100>>)

\* extraction_normalizer._format_amount for a text value.  Decimal() is
\* modelled for the spellings sign, digits, one point, digits; quantize
\* rounds half up.
FormatAmount(value) ==
    LET cleaned    == Call("Strip", <<value>>)
        normalized == Call("Replace", <<Call("RemoveCh", <<Call("Replace", <<cleaned, NNBSP, " ">>), " ">>), ",", ".">>)
        signed     == normalized # "" /\ Head(normalized) \in {"+", "-"}
        body       == IF signed THEN Tail(normalized) ELSE normalized
        points     == Call("CountClass", <<body, Cls({}, ".", 1, 1)>>)
        digits     == Call("CountClass", <<body, Dig(1, 1)>>)
        valid      == digits >= 1 /\ points <= 1 /\ digits + points = Len(body)
        dot        == IF points = 0 THEN Len(body) + 1
                      ELSE CHOOSE i \in 1..Len(body) : Ch(body, i) = "."
        frac       == SubSeq(body, dot + 1, Len(body)) \o "00"
        rem        == SubSeq(frac, 3, Len(frac))
        floor      == 100 * Call("StrToNat", <<SubSeq(body, 1, dot - 1)>>) + Call("StrToNat", <<SubSeq(frac, 1, 2)>>)
        cents      == floor + (IF rem # "" /\ Call("StrToNat", <<Ch(rem, 1)>>) >= 5 THEN 1 ELSE 0)
        sign       == IF signed /\ Head(normalized) = "-" /\ cents > 0 THEN "-" ELSE ""
    IN  IF cleaned = "" \/ ~valid THEN ""
        ELSE sign \o Call("JoinGroups", <<Call("NatToStr", <<cents \div 100>>)>>) \o ","
             \o (IF cents % 100 < 10 THEN "0" ELSE "") \o Call("NatToStr", <<cents % 100>>)

\* texts an amount field can be given: decimal-looking in several spellings,
\* empty, and texts that are no amount
AmountInputs ==
    { "", " ", "abc", "4894.08", "4894,08", "1234,56", "1 234,56", "1~234,56", "1.234,56",
      "1,234.56", "12", "0,5", "2.675", "2.665", "-1234.5", "1 234,56 €", "Total 1 234,56",
      "1234567.995", "1.234.56", ".5" }

\* the applications made to one text
MaxApplications == 2

InitAmount ==
    /\ pc = "amount"
    /\ \E x \in AmountInputs : lines = <<x>> /\ run_data = [EmptyRecord EXCEPT !.total_ht = x]
    /\ PoseIdle
    /\ RunIdle
    /\ SideIdle

\* Each action applies one normalizer to the amount: checked keeps the record
\* before the application, noted the names of the normalizers applied.

\* DevisParser._normalize_amount
ParserNormalize ==
    /\ pc = "amount"
    /\ calls < MaxApplications
    /\ checked' = run_data
    /\ run_data' = [run_data EXCEPT !.total_ht = Call("NormalizeAmount", <<run_data.total_ht>>)]
    /\ noted' = Append(noted, "_normalize_amount")
    /\ calls' = calls + 1
    /\ UNCHANGED <<pc, lines, poseVars, run_candidate, validation_warnings, pose_status, sideVars>>

\* validator._clean_amount
ValidatorClean ==
    /\ pc = "amount"
    /\ calls < MaxApplications
    /\ checked' = run_data
    /\ run_data' = [run_data EXCEPT !.total_ht = Call("CleanAmount", <<run_data.total_ht>>)]
    /\ noted' = Append(noted, "_clean_amount")
    /\ calls' = calls + 1
    /\ UNCHANGED <<pc, lines, poseVars, run_candidate, validation_warnings, pose_status, sideVars>>

\* data_normalizer._format_amount_fr
NormalizerFormat ==
    /\ pc = "amount"
    /\ calls < MaxApplications
    /\ checked' = run_data
    /\ run_data' = [run_data EXCEPT !.total_ht = Call("FormatAmountFr", <<run_data.total_ht>>)]
    /\ noted' = Append(noted, "_format_amount_fr")
    /\ calls' = calls + 1
    /\ UNCHANGED <<pc, lines, poseVars, run_candidate, validation_warnings, pose_status, sideVars>>

\* extraction_normalizer._format_amount
ExtractionFormat ==
    /\ pc = "amount"
    /\ calls < MaxApplications
    /\ checked' = run_data
    /\ run_data' = [run_data EXCEPT !.total_ht = Call("FormatAmount", <<run_data.total_ht>>)]
    /\ noted' = Append(noted, "_format_amount")
    /\ calls' = calls + 1
    /\ UNCHANGED <<pc, lines, poseVars, run_candidate, validation_warnings, pose_status, sideVars>>

NextAmount == ParserNormalize \/ ValidatorClean \/ NormalizerFormat \/ ExtractionFormat

SpecAmount == InitAmount /\ [][NextAmount]_vars

\* C17: applying a normalizer to its own result changes nothing
C17_NormalizeIdempotent ==
    (pc = "amount" /\ Len(noted) >= 2 /\ noted[Len(noted)] = noted[Len(noted) - 1]) =>
        run_data.total_ht = checked.total_ht

\* _format_amount_fr applied twice to 4894.08
C17_Witness ==
    /\ pc = "amount"
    /\ lines = <<"4894.08">>
    /\ noted = <<"_format_amount_fr", "_format_amount_fr">>
    /\ checked.total_ht = "4 894,08"
    /\ run_data.total_ht = "4 894,08"

\* groups of three digits separated by one space, a comma, two digits
CANONICAL_RE ==
    << <<Dig(1, 3)>>, <<Dig(1, 3)>> \o Call("Lit", <<" ">>) \o <<Dig(3, 3)>>,
       <<Dig(1, 3)>> \o Call("Lit", <<" ">>) \o <<Dig(3, 3)>> \o Call("Lit", <<" ">>) \o <<Dig(3, 3)>>,
       <<Dig(1, 3)>> \o Call("Lit", <<" ">>) \o <<Dig(3, 3)>> \o Call("Lit", <<" ">>) \o <<Dig(3, 3)>> \o Call("Lit", <<" ">>) \o <<Dig(3, 3)>> >>

Canonical(value) ==
    \E a \in 1..Len(CANONICAL_RE) :
        LET m == MatchAt(CANONICAL_RE[a] \o Call("Lit", <<",">>) \o <<Dig(2, 2)>>, value, 1, FALSE)
        IN  m # <<>> /\ m[Len(m)] = Len(value) + 1

\* C18: every non-empty amount a normalizer returns has the canonical form
C18_CanonicalForm ==
    (pc = "amount" /\ noted # <<>> /\ run_data.total_ht # "") => Call("Canonical", <<run_data.total_ht>>)

\* a text Decimal() refuses and that holds no amount of two decimals
Unparseable(x) ==
    Call("AmountFindAll", <<x>>) = <<>> /\ Call("FormatAmount", <<x>>) = ""

\* C19: for an empty or unparseable text the normalizers of the record
\* return the empty string
C19_UnparseableGivesEmpty ==
    (pc = "amount" /\ Len(noted) = 1 /\ Call("Unparseable", <<lines[1]>>)
        /\ noted[1] \in {"_format_amount_fr", "_format_amount", "_clean_amount"}) =>
        run_data.total_ht = ""

-----------------------------------------------------------------------------
(* The reference of the devis: DevisParser._find_devis_reference inside    *)
(* parse(path), and RuleBasedParser._parse_reference.                      *)

\* SRX\s*(\d{4})\s*([A-Z]{3})\s*(\d{6}) of rule_based_parser.py, compiled
\* with re.IGNORECASE
RULE_SRX_RE ==
    << Call("Lit", <<"srx">>) \o <<Spc(0, Inf), Dig(4, 4), Spc(0, Inf), Cls({"AZ"}, "", 3, 3),
                      Spc(0, Inf), Dig(6, 6)>> >>

\* RuleBasedParser._parse_reference: <<annee_mois, type, num>> of the first
\* line with a match, three empty strings without one
ParseReference(ls) ==
    IF ls = <<>> THEN <<"", "", "">>
    ELSE LET m == Call("FirstMatch", <<RULE_SRX_RE, Head(ls), TRUE>>)
         IN  IF m # <<>>
             THEN <<Call("GroupOf", <<m, Head(ls), 5, 5>>), Call("GroupOf", <<m, Head(ls), 7, 7>>), Call("GroupOf", <<m, Head(ls), 9, 9>>)>>
             ELSE Call("ParseReference", <<Tail(ls)>>)

ReferencePaths == {"SRX2408AFF000009.pdf", "scan.pdf"}

ReferenceVocabulary ==
    { "DEVIS N° SRX2511AFF037501", "Devis SRX 2512 AFF 000002", "Réf SRX2601AFF000003",
      "Client Final", "Code client : 1234" }

MaxReferenceLines == 2

ReferenceDocs == UNION { [1..n -> ReferenceVocabulary] : n \in 0..MaxReferenceLines }

InitReference ==
    /\ pc = "file"
    /\ lines \in ReferenceDocs
    /\ PoseIdle
    /\ run_data = EmptyRecord
    /\ RunIdle
    /\ SideIdle

\* DevisParser.parse(path): the record, and the lines kept under the path
AnchorReference ==
    /\ pc = "file"
    /\ \E path \in ReferencePaths :
          /\ run_data' = Call("ParseWithCache", <<path, lines, debug_cache>>)
          /\ debug_cache' = [q \in {path} |-> lines]
    /\ pc' = "anchor_based"
    /\ UNCHANGED <<lines, poseVars, run_candidate, checked, validation_warnings, noted,
                   calls, pose_status, verdict, fill_error, row>>

\* RuleBasedParser.parse(path), the reference fields of its record; the
\* record does not depend on the path
RuleBasedReference ==
    /\ pc = "file"
    /\ LET r == Call("ParseReference", <<lines>>)
       IN  run_data' = [EmptyRecord EXCEPT !.devis_annee_mois = r[1], !.devis_type = r[2],
                                           !.devis_num = r[3]]
    /\ pc' = "rule_based"
    /\ UNCHANGED <<lines, poseVars, run_candidate, checked, validation_warnings, noted,
                   calls, pose_status, sideVars>>

NextReference == AnchorReference \/ RuleBasedReference

SpecReference == InitReference /\ [][NextReference]_vars

\* the identifier a text holds, whatever its spacing and case:
\* <<annee_mois, type, num>>, or <<>>
IdentifierIn(s) ==
    LET compact == Call("Upper", <<Call("RemoveCh", <<s, " ">>)>>)
        m       == Call("FirstMatch", <<SRX_RE, compact, FALSE>>)
    IN  IF m = <<>> THEN <<>>
        ELSE <<Call("GroupOf", <<m, compact, 4, 4>>), Call("GroupOf", <<m, compact, 5, 5>>), Call("GroupOf", <<m, compact, 6, 6>>)>>

\* the identifier of the first line of ls, among those only(line) holds for,
\* that has one
FirstIdentifier(ls, devis_only) ==
    LET hits == {i \in 1..Len(ls) :
                    /\ Call("IdentifierIn", <<ls[i]>>) # <<>>
                    /\ devis_only => Call("Contains", <<Call("Lower", <<ls[i]>>), "devis">>)}
    IN  IF hits = {} THEN <<>> ELSE Call("IdentifierIn", <<ls[CHOOSE i \in hits : \A j \in hits : i <= j]>>)

\* the search order of the claim: the file name, the lines with the word
\* devis, the whole document
ExpectedReference(path, ls) ==
    IF Call("IdentifierIn", <<path>>) # <<>> THEN Call("IdentifierIn", <<path>>)
    ELSE IF Call("FirstIdentifier", <<ls, TRUE>>) # <<>> THEN Call("FirstIdentifier", <<ls, TRUE>>)
    ELSE IF Call("FirstIdentifier", <<ls, FALSE>>) # <<>> THEN Call("FirstIdentifier", <<ls, FALSE>>)
    ELSE <<"", "", "">>

RecordReference == <<run_data.devis_annee_mois, run_data.devis_type, run_data.devis_num>>

\* C20: the reference of the record is the identifier of the first source
\* that holds one, in the order file name, lines with the word devis, whole
\* document (for RuleBasedParser, whose record does not depend on the path,
\* the order within the document)
C20_ReferenceSearchOrder ==
    /\ pc = "anchor_based" =>
          \A path \in DOMAIN debug_cache : RecordReference = Call("ExpectedReference", <<path, lines>>)
    /\ pc = "rule_based" => RecordReference = Call("ExpectedReference", <<"", lines>>)

-----------------------------------------------------------------------------
(* The application of the operator named f to the arguments a.            *)

Call(f, a) ==
    CASE f = "Upper" -> Upper(a[1])
      [] f = "Lower" -> Lower(a[1])
      [] f = "Contains" -> Contains(a[1], a[2])
      [] f = "Replace" -> Replace(a[1], a[2], a[3])
      [] f = "LStrip" -> LStrip(a[1])
      [] f = "RStrip" -> RStrip(a[1])
      [] f = "Strip" -> Strip(a[1])
      [] f = "CollapseSpaces" -> CollapseSpaces(a[1])
      [] f = "Lit" -> Lit(a[1])
      [] f = "Search" -> Search(a[1], a[2], a[3])
      [] f = "FirstMatch" -> FirstMatch(a[1], a[2], a[3])
      [] f = "Group0" -> Group0(a[1], a[2])
      [] f = "GroupOf" -> GroupOf(a[1], a[2], a[3], a[4])
      [] f = "Bounded" -> Bounded(a[1])
      [] f = "RunEnd" -> RunEnd(a[1], a[2])
      [] f = "AmountEndAt" -> AmountEndAt(a[1], a[2])
      [] f = "AmountFindAllFrom" -> AmountFindAllFrom(a[1], a[2])
      [] f = "AmountFindAll" -> AmountFindAll(a[1])
      [] f = "SpaceRunEnd" -> SpaceRunEnd(a[1], a[2])
      [] f = "EuroEndAfter" -> EuroEndAfter(a[1], a[2])
      [] f = "EuroEndAt" -> EuroEndAt(a[1], a[2])
      [] f = "EuroFindAllFrom" -> EuroFindAllFrom(a[1], a[2])
      [] f = "EuroFindAll" -> EuroFindAll(a[1])
      [] f = "RemoveCh" -> RemoveCh(a[1], a[2])
      [] f = "NormalizeAmount" -> NormalizeAmount(a[1])
      [] f = "StartsWith" -> StartsWith(a[1], a[2])
      [] f = "CountClass" -> CountClass(a[1], a[2])
      [] f = "KeepLineChars" -> KeepLineChars(a[1])
      [] f = "CleanLine" -> CleanLine(a[1])
      [] f = "IsProbableCompanyName" -> IsProbableCompanyName(a[1])
      [] f = "LooksLikeAddressLine" -> LooksLikeAddressLine(a[1])
      [] f = "FindLineIndex" -> FindLineIndex(a[1], a[2])
      [] f = "NameAboveFrom" -> NameAboveFrom(a[1], a[2], a[3], a[4])
      [] f = "FindClientNameAbove" -> FindClientNameAbove(a[1], a[2])
      [] f = "CollectClientAddressLines" -> CollectClientAddressLines(a[1], a[2])
      [] f = "Join" -> Join(a[1], a[2])
      [] f = "ExtractContactFrom" -> ExtractContactFrom(a[1], a[2], a[3], a[4])
      [] f = "IsMajorityUpper" -> IsMajorityUpper(a[1])
      [] f = "CpVilleScore" -> CpVilleScore(a[1], a[2])
      [] f = "CpVilleCity" -> CpVilleCity(a[1])
      [] f = "CpVilleCode" -> CpVilleCode(a[1])
      [] f = "CpVilleScoreAt" -> CpVilleScoreAt(a[1], a[2])
      [] f = "JoinRest" -> JoinRest(a[1])
      [] f = "ChooseCpVille" -> ChooseCpVille(a[1], a[2])
      [] f = "WithoutLine" -> WithoutLine(a[1], a[2])
      [] f = "SplitAddressLines" -> SplitAddressLines(a[1])
      [] f = "FindFirstMatch" -> FindFirstMatch(a[1], a[2], a[3])
      [] f = "FindPhone" -> FindPhone(a[1])
      [] f = "FindEmail" -> FindEmail(a[1])
      [] f = "Slice" -> Slice(a[1], a[2], a[3])
      [] f = "FindClientDetailsAnchorless" -> FindClientDetailsAnchorless(a[1])
      [] f = "FindClientDetails" -> FindClientDetails(a[1])
      [] f = "LetterWords" -> LetterWords(a[1])
      [] f = "IsValidCommercialNameCandidate" -> IsValidCommercialNameCandidate(a[1])
      [] f = "CommercialNameBelow" -> CommercialNameBelow(a[1], a[2])
      [] f = "FindCommercialDetails" -> FindCommercialDetails(a[1])
      [] f = "IsInvalidClientName" -> IsInvalidClientName(a[1])
      [] f = "IsInvalidCommercialName" -> IsInvalidCommercialName(a[1])
      [] f = "LastNotPlaceholder" -> LastNotPlaceholder(a[1], a[2])
      [] f = "ExtractPoseAmount" -> ExtractPoseAmount(a[1])
      [] f = "HasPoseWord" -> HasPoseWord(a[1])
      [] f = "IsServicesMarker" -> IsServicesMarker(a[1])
      [] f = "DetectPoseFrom" -> DetectPoseFrom(a[1], a[2], a[3])
      [] f = "DetectPose" -> DetectPose(a[1])
      [] f = "NatToStr" -> NatToStr(a[1])
      [] f = "StrToNat" -> StrToNat(a[1])
      [] f = "AfterColon" -> AfterColon(a[1])
      [] f = "NextNonBlank" -> NextNonBlank(a[1], a[2])
      [] f = "FindRefAffaire" -> FindRefAffaire(a[1])
      [] f = "FindDevisReference" -> FindDevisReference(a[1])
      [] f = "FindAmountByLabel" -> FindAmountByLabel(a[1], a[2])
      [] f = "AmountCents" -> AmountCents(a[1])
      [] f = "SumAmounts" -> SumAmounts(a[1], a[2])
      [] f = "DumpLines" -> DumpLines(a[1], a[2], a[3])
      [] f = "DumpLinesAround" -> DumpLinesAround(a[1], a[2])
      [] f = "FindPoseDetailsFrom" -> FindPoseDetailsFrom(a[1], a[2], a[3])
      [] f = "SplitLines" -> SplitLines(a[1])
      [] f = "StripNonBlank" -> StripNonBlank(a[1])
      [] f = "NonEmpty" -> NonEmpty(a[1])
      [] f = "OcrExcerpts" -> OcrExcerpts(a[1])
      [] f = "ParseDevis" -> ParseDevis(a[1], a[2], a[3])
      [] f = "ContainsPollution" -> ContainsPollution(a[1])
      [] f = "StripPollutionLinesNoDedup" -> StripPollutionLinesNoDedup(a[1], a[2])
      [] f = "StripPollutionLines" -> StripPollutionLines(a[1], a[2])
      [] f = "CpVilleIsPolluted" -> CpVilleIsPolluted(a[1], a[2])
      [] f = "DeduceCpVille" -> DeduceCpVille(a[1], a[2], a[3])
      [] f = "SanitizeClientAddress" -> SanitizeClientAddress(a[1], a[2])
      [] f = "ContainsRiaux" -> ContainsRiaux(a[1])
      [] f = "CleanCp" -> CleanCp(a[1])
      [] f = "CleanAmount" -> CleanAmount(a[1])
      [] f = "EmailFullMatch" -> EmailFullMatch(a[1])
      [] f = "ClearRiaux" -> ClearRiaux(a[1], a[2], a[3], a[4])
      [] f = "CleanAmounts" -> CleanAmounts(a[1], a[2], a[3], a[4])
      [] f = "CheckEmails" -> CheckEmails(a[1], a[2], a[3], a[4])
      [] f = "ValidateAndFix" -> ValidateAndFix(a[1], a[2])
      [] f = "GroupThousands" -> GroupThousands(a[1])
      [] f = "FormatAmountFr" -> FormatAmountFr(a[1])
      [] f = "SrxInValues" -> SrxInValues(a[1], a[2])
      [] f = "NormalizeSrx" -> NormalizeSrx(a[1])
      [] f = "NormalizeExtractedData" -> NormalizeExtractedData(a[1], a[2])
      [] f = "MergeData" -> MergeData(a[1], a[2])
      [] f = "HasRiauxPollution" -> HasRiauxPollution(a[1])
      [] f = "ValidateBdcDataAmountFirst" -> ValidateBdcDataAmountFirst(a[1])
      [] f = "ValidateBdcData" -> ValidateBdcData(a[1])
      [] f = "ValidateOutputFields" -> ValidateOutputFields(a[1])
      [] f = "OcrFallbackNeeded" -> OcrFallbackNeeded(a[1])
      [] f = "OcrOutcomes" -> OcrOutcomes(a[1])
      [] f = "AnyCriticalKeyEmpty" -> AnyCriticalKeyEmpty(a[1])
      [] f = "AppendWarnings" -> AppendWarnings(a[1], a[2])
      [] f = "Qualifies" -> Qualifies(a[1])
      [] f = "ZeroOrPlaceholderLine" -> ZeroOrPlaceholderLine(a[1])
      [] f = "IsOtherSectionHeading" -> IsOtherSectionHeading(a[1])
      [] f = "ClientRecord" -> ClientRecord(a[1])
      [] f = "LineGives" -> LineGives(a[1], a[2])
      [] f = "OcrUnavailable" -> OcrUnavailable(a[1])
      [] f = "ParseReusingCache" -> ParseReusingCache(a[1], a[2], a[3])
      [] f = "ParseWithCache" -> ParseWithCache(a[1], a[2], a[3])
      [] f = "ClientPresent" -> ClientPresent(a[1])
      [] f = "ClientNotBanned" -> ClientNotBanned(a[1])
      [] f = "ReferenceHasSrx" -> ReferenceHasSrx(a[1])
      [] f = "AmountPresent" -> AmountPresent(a[1])
      [] f = "FindAllPhones" -> FindAllPhones(a[1], a[2])
      [] f = "AssignPhones" -> AssignPhones(a[1], a[2])
      [] f = "CommercialScan" -> CommercialScan(a[1], a[2])
      [] f = "ExtractCommercialBlock" -> ExtractCommercialBlock(a[1])
      [] f = "PhonesInOrder" -> PhonesInOrder(a[1])
      [] f = "FindModele" -> FindModele(a[1])
      [] f = "FinitionMatch" -> FinitionMatch(a[1])
      [] f = "FinitionKey" -> FinitionKey(a[1])
      [] f = "FinitionScan" -> FinitionScan(a[1], a[2], a[3], a[4])
      [] f = "ExtractFinitions" -> ExtractFinitions(a[1])
      [] f = "FirstLabelled" -> FirstLabelled(a[1], a[2])
      [] f = "OriginText" -> OriginText(a[1])
      [] f = "PoseCellChanged" -> PoseCellChanged(a[1])
      [] f = "ForceCellChangedNoReset" -> ForceCellChangedNoReset(a[1], a[2])
      [] f = "ForceCellChanged" -> ForceCellChanged(a[1], a[2])
      [] f = "Contaminated" -> Contaminated(a[1])
      [] f = "PollutionWarning" -> PollutionWarning(a[1])
      [] f = "IsBlacklisted" -> IsBlacklisted(a[1])
      [] f = "EndsBlock" -> EndsBlock(a[1])
      [] f = "RuleAfterColon" -> RuleAfterColon(a[1])
      [] f = "RuleNameAbove" -> RuleNameAbove(a[1], a[2])
      [] f = "RuleNameBelow" -> RuleNameBelow(a[1], a[2])
      [] f = "RuleAddressScan" -> RuleAddressScan(a[1], a[2], a[3], a[4])
      [] f = "RuleCleanAddress" -> RuleCleanAddress(a[1])
      [] f = "RuleCpVille" -> RuleCpVille(a[1])
      [] f = "ExtractClientBlock" -> ExtractClientBlock(a[1])
      [] f = "NoisePhrase" -> NoisePhrase(a[1])
      [] f = "ValidNameLine" -> ValidNameLine(a[1])
      [] f = "JoinGroups" -> JoinGroups(a[1])
      [] f = "FormatAmountCommaKept" -> FormatAmountCommaKept(a[1])
      [] f = "FormatAmount" -> FormatAmount(a[1])
      [] f = "Canonical" -> Canonical(a[1])
      [] f = "Unparseable" -> Unparseable(a[1])
      [] f = "ParseReference" -> ParseReference(a[1])
      [] f = "IdentifierIn" -> IdentifierIn(a[1])
      [] f = "FirstIdentifier" -> FirstIdentifier(a[1], a[2])
      [] f = "ExpectedReference" -> ExpectedReference(a[1], a[2])

====
